---- MODULE Spec2Model ----
(***************************************************************************)
(* A model of the per-call dialog engine of cloud-run-media-stream/server.js *)
(* for one WebSocket session.                                              *)
(*                                                                         *)
(* The server is single-threaded JavaScript: a handler runs without        *)
(* interruption up to its next `await` of something that is not yet        *)
(* settled (a timer, an RPC, an audio send still in flight).  Each action  *)
(* below is one such run.  A continuation whose awaited promise is already *)
(* settled is a microtask: it runs before any timer, RPC completion or     *)
(* WebSocket event (the guard ~Urgent of the macrotask actions).           *)
(*                                                                         *)
(* `session` holds the fields of the session object under their source    *)
(* names, the tasks of the session that are suspended at an await (sends,  *)
(* inits, turns, the media chain) and a few trace fields (acceptedSegs,    *)
(* delivered, sttStarted, lastEos) that record what the code did.          *)
(***************************************************************************)
EXTENDS Integers, Sequences, FiniteSets, TLC

VARIABLES
    session,                 \* the session object (initializeSession) and its suspended tasks
    now,                     \* Date.now(), in ms
    preGeneratedAudioCache,  \* the greeting memory cache holds the key of this call
    fillerAudioCache,        \* the filler memory cache holds the key of this call
    stopReceived,            \* the peer has sent {"event":"stop"}
    events,                  \* how many WebSocket events of each kind have arrived
    bound,                   \* the bounds of this run on events, clock and tasks, and
                             \* whether reads of the greeting from the bucket can fail
    codec                    \* the audio conversions: a byte on its round trip through the
                             \* mu-law codec, or the jobs and the files of the transcoder

vars == <<session, now, preGeneratedAudioCache, fillerAudioCache, stopReceived, events, bound, codec>>

\* No byte is on its way through the codec
NoCodec == [pc |-> "idle"]

---------------------------------------------------------------------------
(* Bounds of the model *)

\* Call setup (Spec)
MaxGen == 3          \* sends started per session
MaxInit == 2         \* sendInitialMessage calls suspended at the same time
MaxConnected == 2    \* connected events
MaxStart == 1        \* start events
MaxMedia == 2        \* media events
MaxTicks == 1        \* steps of the clock
\* The established call (CallSpec)
MaxCallGen == 4      \* sends started per session, the greeting included
MaxCallMedia == 8    \* media events
MaxCallTicks == 4    \* steps of the clock
\* The first utterance of the established call (UtteranceSpec): its media
\* events have payloads of every length of FrameBytes, those of CallSpec are
\* full frames
MaxUtteranceGen == 3     \* sends started per session, the greeting included
MaxUtteranceMedia == 5   \* media events
MaxUtteranceTicks == 2   \* steps of the clock
\* Both
MaxChain == 1        \* media messages waiting in _mediaChain behind a suspended handler
TickMs == 350        \* the clock advances in steps of TickMs

(* Program constants *)

chunkSize == 160                 \* server.js:728
VAD_THRESHOLD == 2               \* server.js:465
VAD_THRESHOLD_WHILE_PLAYING == 6 \* server.js:466
SPEECH_WARMUP_FRAMES == 2        \* server.js:480
SPEECH_WARMUP_FRAMES_WHILE_PLAYING == 4  \* server.js:479
SILENCE_MS == 300                \* server.js:515
MIN_SPEECH_MS == 400             \* server.js:530
(* MIN_SPEECH_FRAMES and MIN_SPEECH_BYTES are read from the environment      *)
(* (server.js:528-529, defaults 10 and 1600 = 10 frames of 160 bytes).  The *)
(* model runs the configuration MIN_SPEECH_FRAMES=2, MIN_SPEECH_BYTES=320,  *)
(* which keeps the default ratio of one full frame per required frame.      *)
MIN_SPEECH_FRAMES == 2
MIN_SPEECH_BYTES == 320

(* Inputs *)

Transcripts == {"words", "nomore"}   \* STT results: "nomore" holds a phrase of line 95
ClassifierActions == {"normal", "take_message", "closing", "farewell"}  \* line 139
CallTranscripts == {"words"}         \* ... of CallSpec
CallClassifierActions == {"normal"}  \* ... of CallSpec

GreetingLen == 2 * chunkSize     \* length of the pre-rendered greeting audio
FillerLen == 2 * chunkSize       \* length of the pre-rendered filler audio
ReplyBytes == {chunkSize + 80, 2 * chunkSize}  \* lengths of a synthesized utterance
CallReplyBytes == {2 * chunkSize}              \* ... of CallSpec
Levels == {0, 10}                \* calculateAudioLevel of a frame: silence, speech
FrameBytes == {80, 160}          \* payload length of an inbound frame

---------------------------------------------------------------------------
(* Helpers *)

RECURSIVE SumBytes(_)
SumBytes(q) == IF q = <<>> THEN 0 ELSE Head(q).bytes + SumBytes(Tail(q))

Min(a, b) == IF a < b THEN a ELSE b

Max(a, b) == IF a > b THEN a ELSE b

RemoveAt(q, k) == SubSeq(q, 1, k - 1) \o SubSeq(q, k + 1, Len(q))

---------------------------------------------------------------------------
(* The session object: initializeSession, and the pending session of       *)
(* wss.on("connection") when the URL carries no callSid.  Numbers that are  *)
(* null or undefined in the source are 0 here (Date.now() and the send      *)
(* generations are never 0); identifiers (callSid, streamSid) are modelled  *)
(* by whether they are set.                                                 *)

IdleHandler == [pc |-> "idle", msg |-> <<>>, seg |-> <<>>, wait |-> 0]

NoEos == [frames |-> 0, bytes |-> 0, wallMs |-> 0, accepted |-> FALSE]

initializeSession(urlCallSid) ==
    [ callSid |-> urlCallSid,
      ws |-> "OPEN",               \* session.ws.readyState
      connected |-> FALSE,
      startReceived |-> FALSE,
      streamSid |-> FALSE,
      initialMessageSent |-> FALSE,
      onStreamSidReady |-> urlCallSid,
      isSendingAudio |-> FALSE,
      _audioGenCounter |-> 0,
      _activeAudioGen |-> 0,
      _stopAudioGen |-> 0,
      _uninterruptibleAudioGen |-> 0,
      _greetingInProgress |-> FALSE,
      _audioSendPromise |-> 0,
      _speechActive |-> FALSE,
      _speechWarmup |-> 0,
      _segmentBuffers |-> <<>>,
      _segmentLastNonSilentIndex |-> -1,
      _segmentStartMs |-> 0,
      _speechStartMs |-> 0,
      lastIncomingAudioTime |-> 0,
      _pendingUserSegments |-> <<>>,
      _pendingProcessTimer |-> FALSE,
      _segmentQueue |-> <<>>,
      _segmentRunning |-> FALSE,
      _closingAsked |-> FALSE,
      _purposeCaptured |-> FALSE,
      _mediaChain |-> <<>>,
      \* suspended tasks
      handler |-> IdleHandler,     \* handleInboundMediaMessage, at most one (the chain)
      startLookup |-> "idle",      \* the start branch of ws.on("message"), awaiting the registry
      waitForConnected |-> 0,      \* setInterval timers of the start branch
      sends |-> <<>>,              \* sendAudioViaWebSocket calls, by generation
      inits |-> <<>>,              \* sendInitialMessage calls not yet returned
      turns |-> <<>>,              \* processIncomingAudio calls that run the queue loop
      \* trace
      acceptedSegs |-> <<>>,       \* segments that passed the segment_drop check
      delivered |-> <<>>,          \* merged audio handed to processIncomingAudio
      sttStarted |-> <<>>,         \* audio for which transcoding and STT were started
      farewellTriggered |-> FALSE, \* a turn was routed to the farewell
      callDocs |-> <<>>,           \* the fetches of the call document (line 1187)
      tmpFiles |-> {},             \* the files of /tmp/incoming_*: <<suffix, timestamp>>
      lastEos |-> NoEos ]          \* the last EOS with audio: its measures and its fate

---------------------------------------------------------------------------
(* Audio-send scheduler *)

\* What the log lines of requestStopAudio say about send g: a stop of it was
\* ignored, a stop of it was requested, and how many chunks it had sent when
\* the caller's speech first asked it to stop (-1: never)
StopRequested(s, g, reason) ==
    [s EXCEPT !.sends[g].stopRequested = TRUE,
              !.sends[g].callerStopAt =
                  IF reason = "caller_speech" /\ @ < 0 THEN Len(s.sends[g].sent) ELSE @]

StopIgnored(s, g) == [s EXCEPT !.sends[g].stopIgnored = TRUE]

\* requestStopAudio without the uninterruptible rule
requestStopAudio_always(s, reason) ==
    IF ~s.isSendingAudio THEN s
    ELSE StopRequested([s EXCEPT !._stopAudioGen = s._activeAudioGen],
                       s._activeAudioGen, reason)

\* requestStopAudio with the test of the uninterruptible generation inverted
requestStopAudio_inverted(s, reason) ==
    IF ~s.isSendingAudio THEN s
    ELSE IF s._uninterruptibleAudioGen # s._activeAudioGen
    THEN StopIgnored(s, s._activeAudioGen)
    ELSE StopRequested([s EXCEPT !._stopAudioGen = s._activeAudioGen],
                       s._activeAudioGen, reason)

\* A stop request that names the generation after the active one
requestStopAudio_next(s, reason) ==
    IF ~s.isSendingAudio THEN s
    ELSE IF s._uninterruptibleAudioGen # 0
            /\ s._uninterruptibleAudioGen = s._activeAudioGen
    THEN StopIgnored(s, s._activeAudioGen)
    ELSE StopRequested([s EXCEPT !._stopAudioGen = s._activeAudioGen + 1],
                       s._activeAudioGen, reason)

requestStopAudio(s, reason) ==
    IF ~s.isSendingAudio THEN s
    ELSE IF s._uninterruptibleAudioGen # 0
            /\ s._uninterruptibleAudioGen = s._activeAudioGen
    THEN StopIgnored(s, s._activeAudioGen)
    ELSE StopRequested([s EXCEPT !._stopAudioGen = s._activeAudioGen],
                       s._activeAudioGen, reason)

\* The send a caller of `await session._audioSendPromise` has to wait for:
\* 0 when there is no promise or it is settled already.
InFlight(s, g) == g # 0 /\ s.sends[g].status = "sending"

AwaitTarget(s, g) == IF InFlight(s, g) THEN g ELSE 0

\* stopOngoingAudio up to its await: the session after requestStopAudio
stopOngoingAudio(s, reason) ==
    IF ~s.isSendingAudio THEN s ELSE requestStopAudio(s, reason)

\* ... and the generation its await waits for (0: it returns at once)
stopOngoingAudioWait(s) ==
    IF ~s.isSendingAudio THEN 0 ELSE AwaitTarget(s, s._audioSendPromise)

\* The end of sendAudioViaWebSocket after its loop (lines 777-805)
SendFinish(s, g, wasInterrupted) ==
    LET r == s.sends[g]
        s1 == IF s._activeAudioGen = g
              THEN [s EXCEPT !.isSendingAudio = FALSE,
                             !._stopAudioGen = IF @ = g THEN 0 ELSE @,
                             !._uninterruptibleAudioGen = IF @ = g THEN 0 ELSE @]
              ELSE s
        s2 == IF r.label = "greeting"
              THEN [s1 EXCEPT !._greetingInProgress = FALSE] ELSE s1
    IN [s2 EXCEPT !.sends[g].status =
                      IF wasInterrupted THEN "interrupted" ELSE "completed",
                  !.sends[g].mark = ~wasInterrupted]

\* The send loop from its iteration i up to the 20 ms sleep or the end
SendLoop(s, g) ==
    LET r == s.sends[g]
        start == r.i * chunkSize
        end == Min(start + chunkSize, r.bytes)
    IN IF r.i >= r.totalChunks THEN SendFinish(s, g, FALSE)
       ELSE IF s._stopAudioGen = g THEN SendFinish(s, g, TRUE)
       ELSE LET s1 == [s EXCEPT !.sends[g].i = r.i + 1,
                                !.sends[g].sent = Append(@, end - start),
                                !.sends[g].offsets = Append(@, start)]
            IN IF r.i < r.totalChunks - 1 THEN s1
               ELSE SendFinish(s1, g, FALSE)

\* The send loop of generation g while the socket is not OPEN (after close).
\* What ws.send does then depends on the version of the ws library, which
\* the repository does not pin: it throws (the send promise is rejected where
\* it stands, lines 777-785 are skipped) or it discards the frame.
SendLoopClosed(s, g, throws) ==
    LET r == s.sends[g]
        done == [SendFinish(s, g, FALSE) EXCEPT !.sends[g].mark = FALSE]
    IN IF r.i >= r.totalChunks
       THEN [done EXCEPT !.sends[g].status = IF throws THEN "failed" ELSE "completed"]
       ELSE IF s._stopAudioGen = g THEN SendFinish(s, g, TRUE)
       ELSE IF throws THEN [s EXCEPT !.sends[g].status = "failed"]
       ELSE IF r.i < r.totalChunks - 1 THEN [s EXCEPT !.sends[g].i = r.i + 1]
       ELSE [done EXCEPT !.sends[g].i = r.i + 1]

\* sendAudioViaWebSocket up to its first await.  When the socket is not OPEN
\* (lines 696-699) or there is no streamSid (lines 704-708) the call throws
\* and the promise it leaves in _audioSendPromise is rejected (0).
sendAudioViaWebSocket(s, bytes, label, uninterruptible) ==
    IF s.ws # "OPEN" \/ ~s.streamSid THEN [s EXCEPT !._audioSendPromise = 0]
    ELSE LET gen == s._audioGenCounter + 1
             r == [ label |-> label,
                    uninterruptible |-> uninterruptible,
                    bytes |-> bytes,
                    totalChunks |-> (bytes + chunkSize - 1) \div chunkSize,
                    i |-> 0,
                    sent |-> <<>>,       \* lengths of the chunks sent
                    offsets |-> <<>>,    \* where in the payload they start
                    mark |-> FALSE,
                    status |-> "sending",
                    stopIgnored |-> FALSE,
                    stopRequested |-> FALSE,
                    callerStopAt |-> -1 ]
             s1 == [s EXCEPT !._audioGenCounter = gen,
                             !._activeAudioGen = gen,
                             !._stopAudioGen = 0,
                             !.isSendingAudio = TRUE,
                             !._uninterruptibleAudioGen =
                                 IF uninterruptible THEN gen ELSE @,
                             !._greetingInProgress =
                                 IF label = "greeting" THEN TRUE ELSE @,
                             !._audioSendPromise = gen,
                             !.sends = Append(@, r)]
         IN SendLoop(s1, gen)

---------------------------------------------------------------------------
(* sendAudioResponseViaMediaStream, called by a task k of s[kind]           *)
(* (kind = "turns": processIncomingAudio, kind = "inits":                   *)
(* sendInitialMessage).  Its awaits of the registry, the TTS service and    *)
(* the transcoder are one suspension (pc "synth"); then it awaits           *)
(* stopOngoingAudio (pc "stopWait") and its own send (pc "sendWait").       *)

GREETING_TEXT == "greeting"   \* the utterance of server.js:1236 and 1634

\* processIncomingAudio: the finally block (lines 1109-1114)
TurnFinally(s, k) ==
    [s EXCEPT !._segmentRunning = FALSE,
              !._speechStartMs = 0,
              !.turns = RemoveAt(@, k)]

\* processIncomingAudio: the head of the queue loop (lines 832-856), up to
\* the await of the transcoder
TurnLoop(s, k) ==
    IF s._segmentQueue = <<>> THEN TurnFinally(s, k)
    ELSE [s EXCEPT !._segmentQueue = Tail(@),
                   !.tmpFiles = @ \cup {<<"ulaw", Len(s.sttStarted) + 1>>},
                   !.turns[k] = [pc |-> "stt", audio |-> Head(s._segmentQueue),
                                 timestamp |-> Len(s.sttStarted) + 1,
                                 userMessage |-> "", cls |-> "", text |-> "",
                                 bytes |-> 0, wait |-> 0,
                                 log |-> <<>>, calls |-> {"stt"}],
                   !.sttStarted = Append(@, Head(s._segmentQueue))]

\* What the caller does when sendAudioResponseViaMediaStream has returned:
\* the turn loop continues with the next segment, sendInitialMessage returns.
ResponseReturn(s, kind, k) ==
    IF kind = "turns" THEN TurnLoop(s, k)
    ELSE [s EXCEPT !.inits = RemoveAt(@, k)]

\* Lines 1634-1636: the send of the synthesized audio, up to its await
ResponseSend(s, kind, k) ==
    LET task == s[kind][k]
        isGreeting == task.text = GREETING_TEXT
        s1 == sendAudioViaWebSocket(s, task.bytes,
                  IF isGreeting THEN "greeting" ELSE "ai_response", isGreeting)
        g == s1._audioSendPromise
    IN IF InFlight(s1, g)
       THEN [s1 EXCEPT ![kind][k].pc = "sendWait", ![kind][k].wait = g]
       ELSE ResponseReturn(s1, kind, k)

\* Line 1632: await stopOngoingAudio(session, "new_ai_response")
ResponseStop(s, kind, k) ==
    LET w == stopOngoingAudioWait(s)
        s1 == stopOngoingAudio(s, "new_ai_response")
    IN IF w # 0
       THEN [s1 EXCEPT ![kind][k].pc = "stopWait", ![kind][k].wait = w]
       ELSE ResponseSend(s1, kind, k)

---------------------------------------------------------------------------
(* The initial greeting *)

\* sendInitialMessage up to its first await.  Its callers have set streamSid
\* and startReceived and the socket is OPEN, so neither wait loop is entered.
sendInitialMessage(s) ==
    IF s.initialMessageSent THEN s
    ELSE IF ~s.streamSid \/ ~s.startReceived THEN s
    ELSE IF preGeneratedAudioCache
    THEN sendAudioViaWebSocket([s EXCEPT !.initialMessageSent = TRUE,
                                         !.callDocs = Append(@, "pending")],
                               GreetingLen, "greeting", TRUE)
    ELSE [s EXCEPT !.callDocs = Append(@, "pending"),
                   !.inits = Append(@, [pc |-> "load1", text |-> GREETING_TEXT,
                                        doc |-> Len(s.callDocs) + 1,
                                        bytes |-> 0, wait |-> 0])]

\* onStreamSidReady with the test of the socket inverted
onStreamSidReady_inverted(s) == IF s.ws # "OPEN" THEN sendInitialMessage(s) ELSE s

\* onStreamSidReady: with the socket not OPEN it polls for OPEN and gives up
onStreamSidReady(s) == IF s.ws = "OPEN" THEN sendInitialMessage(s) ELSE s

---------------------------------------------------------------------------
(* Turn serialization and segment merging *)

RECURSIVE Concat(_)
Concat(segs) == IF segs = <<>> THEN <<>> ELSE Head(segs) \o Concat(Tail(segs))

\* processIncomingAudio without the _segmentRunning test
processIncomingAudio_reentrant(s, combinedAudioOverride) ==
    LET s1 == [s EXCEPT !._segmentQueue =
                            IF combinedAudioOverride # <<>>
                            THEN Append(@, combinedAudioOverride) ELSE @,
                        !.delivered = Append(@, combinedAudioOverride)]
        k == Len(s1.turns) + 1
    IN TurnLoop([s1 EXCEPT !._segmentRunning = TRUE,
                           !.turns = Append(@, [pc |-> "entry"])], k)

\* processIncomingAudio up to its first await (lines 813-856)
processIncomingAudio(s, combinedAudioOverride) ==
    LET s1 == [s EXCEPT !._segmentQueue =
                            IF combinedAudioOverride # <<>>
                            THEN Append(@, combinedAudioOverride) ELSE @,
                        !.delivered = Append(@, combinedAudioOverride)]
        k == Len(s1.turns) + 1
    IN IF s1._segmentRunning THEN s1
       ELSE TurnLoop([s1 EXCEPT !._segmentRunning = TRUE,
                                !.turns = Append(@, [pc |-> "entry"])], k)

\* queueOrMergeIncomingSegment that puts the new segment first
queueOrMergeIncomingSegment_front(s, combinedAudio) ==
    IF combinedAudio = <<>> THEN s
    ELSE [s EXCEPT !._pendingUserSegments = <<combinedAudio>> \o @,
                   !._pendingProcessTimer = TRUE]

\* queueOrMergeIncomingSegment: push, clear the timer, arm a new one
queueOrMergeIncomingSegment(s, combinedAudio) ==
    IF combinedAudio = <<>> THEN s
    ELSE [s EXCEPT !._pendingUserSegments = Append(@, combinedAudio),
                   !._pendingProcessTimer = TRUE]

\* The timer callback of queueOrMergeIncomingSegment (lines 171-179)
PendingTimerCallback(s) ==
    LET segs == s._pendingUserSegments
        merged == IF Len(segs) = 1 THEN segs[1] ELSE Concat(segs)
    IN processIncomingAudio([s EXCEPT !._pendingUserSegments = <<>>,
                                      !._pendingProcessTimer = FALSE], merged)

---------------------------------------------------------------------------
(* Filler (maybePlayFillerAizuchi) inside handleInboundMediaMessage.  When  *)
(* it returns, the handler calls queueOrMergeIncomingSegment and ends.      *)

HandlerReturn(s) == [s EXCEPT !.handler = IdleHandler]

\* Lines 542-546 after `await maybePlayFillerAizuchi(session)`
AfterFiller(s, seg) == HandlerReturn(queueOrMergeIncomingSegment(s, seg))

\* Lines 372-381: the un-awaited send of the filler
FillerPlay(s, seg) ==
    AfterFiller(sendAudioViaWebSocket(s, FillerLen, "filler", FALSE), seg)

\* Lines 353-371: memory cache, else object store (await)
FillerLookup(s, seg) ==
    IF fillerAudioCache THEN FillerPlay(s, seg)
    ELSE [s EXCEPT !.handler = [pc |-> "fillerLoad", msg |-> <<>>,
                                seg |-> seg, wait |-> 0]]

\* Lines 344-351
maybePlayFillerAizuchi(s, seg) ==
    IF ~s.callSid THEN AfterFiller(s, seg)
    ELSE LET w == stopOngoingAudioWait(s)
             s1 == stopOngoingAudio(s, "before_filler")
         IN IF w # 0
            THEN [s1 EXCEPT !.handler = [pc |-> "fillerStop", msg |-> <<>>,
                                         seg |-> seg, wait |-> w]]
            ELSE FillerLookup(s1, seg)

---------------------------------------------------------------------------
(* handleInboundMediaMessage.  A message m is [track, sid, level, bytes, n]: *)
(* its track, whether it carries a streamSid, calculateAudioLevel of its    *)
(* payload, the payload length and the arrival number of the frame.         *)

\* Lines 518-546 with the segment_drop test left out
EndOfSpeech_nodrop(s, t) ==
    LET keepCount == Max(0, s._segmentLastNonSilentIndex + 1)
        kept == SubSeq(s._segmentBuffers, 1, keepCount)
        s1 == [s EXCEPT !._speechActive = FALSE,
                        !._segmentBuffers = <<>>,
                        !._segmentLastNonSilentIndex = -1,
                        !._speechWarmup = 0]
    IN IF SumBytes(kept) > 0
       THEN maybePlayFillerAizuchi(
                [s1 EXCEPT !.acceptedSegs = Append(@, kept),
                           !.lastEos = [frames |-> Len(kept), bytes |-> SumBytes(kept),
                                        wallMs |-> t - s._segmentStartMs,
                                        accepted |-> TRUE]], kept)
       ELSE HandlerReturn(s1)

\* Lines 518-546: end of speech
\* An end of speech that keeps the silent frames at the end of the buffer
EndOfSpeech_notrim(s, t) ==
    LET keepCount == Len(s._segmentBuffers)
        kept == SubSeq(s._segmentBuffers, 1, keepCount)
        combinedLength == SumBytes(kept)
        speechMs == IF s._speechStartMs # 0 THEN t - s._speechStartMs ELSE 0
        eos == [frames |-> Len(kept), bytes |-> combinedLength,
                wallMs |-> t - s._segmentStartMs, accepted |-> FALSE]
        s1 == [s EXCEPT !._speechActive = FALSE,
                        !._segmentBuffers = <<>>,
                        !._segmentLastNonSilentIndex = -1,
                        !._speechWarmup = 0]
    IN IF combinedLength > 0
       THEN IF Len(kept) < MIN_SPEECH_FRAMES \/ combinedLength < MIN_SPEECH_BYTES
               \/ speechMs < MIN_SPEECH_MS
            THEN HandlerReturn([s1 EXCEPT !.lastEos = eos])
            ELSE maybePlayFillerAizuchi(
                     [s1 EXCEPT !.acceptedSegs = Append(@, kept),
                                !.lastEos = [eos EXCEPT !.accepted = TRUE]], kept)
       ELSE HandlerReturn(s1)

\* An end of speech that leaves the frames in the buffer
EndOfSpeech_keepbuffers(s, t) ==
    LET keepCount == Max(0, s._segmentLastNonSilentIndex + 1)
        kept == SubSeq(s._segmentBuffers, 1, keepCount)
        combinedLength == SumBytes(kept)
        speechMs == IF s._speechStartMs # 0 THEN t - s._speechStartMs ELSE 0
        eos == [frames |-> Len(kept), bytes |-> combinedLength,
                wallMs |-> t - s._segmentStartMs, accepted |-> FALSE]
        s1 == [s EXCEPT !._speechActive = FALSE,
                        !._segmentLastNonSilentIndex = -1,
                        !._speechWarmup = 0]
    IN IF combinedLength > 0
       THEN IF Len(kept) < MIN_SPEECH_FRAMES \/ combinedLength < MIN_SPEECH_BYTES
               \/ speechMs < MIN_SPEECH_MS
            THEN HandlerReturn([s1 EXCEPT !.lastEos = eos])
            ELSE maybePlayFillerAizuchi(
                     [s1 EXCEPT !.acceptedSegs = Append(@, kept),
                                !.lastEos = [eos EXCEPT !.accepted = TRUE]], kept)
       ELSE HandlerReturn(s1)

EndOfSpeech(s, t) ==
    LET keepCount == Max(0, s._segmentLastNonSilentIndex + 1)
        kept == SubSeq(s._segmentBuffers, 1, keepCount)
        combinedLength == SumBytes(kept)
        speechMs == IF s._speechStartMs # 0 THEN t - s._speechStartMs ELSE 0
        eos == [frames |-> Len(kept), bytes |-> combinedLength,
                wallMs |-> t - s._segmentStartMs, accepted |-> FALSE]
        s1 == [s EXCEPT !._speechActive = FALSE,
                        !._segmentBuffers = <<>>,
                        !._segmentLastNonSilentIndex = -1,
                        !._speechWarmup = 0]
    IN IF combinedLength > 0
       THEN IF Len(kept) < MIN_SPEECH_FRAMES \/ combinedLength < MIN_SPEECH_BYTES
               \/ speechMs < MIN_SPEECH_MS
            THEN HandlerReturn([s1 EXCEPT !.lastEos = eos])
            ELSE maybePlayFillerAizuchi(
                     [s1 EXCEPT !.acceptedSegs = Append(@, kept),
                                !.lastEos = [eos EXCEPT !.accepted = TRUE]], kept)
       ELSE HandlerReturn(s1)

\* Lines 485-503: speech start confirmed
SpeechStart(s, t) ==
    LET s1 == [s EXCEPT !._speechActive = TRUE,
                        !._segmentStartMs = t,
                        !._speechStartMs = t,
                        !._segmentBuffers = <<>>,
                        !._segmentLastNonSilentIndex = -1]
        s2 == IF s1.isSendingAudio THEN requestStopAudio(s1, "caller_speech") ELSE s1
    IN [s2 EXCEPT !._pendingProcessTimer = FALSE]

\* Lines 454-547: the frame goes through VAD at time t
\* A VAD whose run of speech frames survives a frame below the threshold
Vad_noreset(s, m, t) ==
    LET threshold == IF s.isSendingAudio THEN VAD_THRESHOLD_WHILE_PLAYING
                     ELSE VAD_THRESHOLD
        isSpeechFrame == m.level > threshold
        warmupNeeded == IF s.isSendingAudio THEN SPEECH_WARMUP_FRAMES_WHILE_PLAYING
                        ELSE SPEECH_WARMUP_FRAMES
        s0 == [s EXCEPT !._speechWarmup = IF isSpeechFrame THEN @ + 1 ELSE @]
        isSpeechStartConfirmed == s0._speechWarmup >= warmupNeeded
    IN IF ~s0._speechActive /\ ~isSpeechStartConfirmed THEN HandlerReturn(s0)
       ELSE LET s1 == IF ~s0._speechActive THEN SpeechStart(s0, t) ELSE s0
                s2 == [s1 EXCEPT !._segmentBuffers = Append(@, m)]
                s3 == IF isSpeechFrame
                      THEN [s2 EXCEPT !.lastIncomingAudioTime = t,
                                      !._segmentLastNonSilentIndex =
                                          Len(s2._segmentBuffers) - 1]
                      ELSE s2
                lastSpeechAt == IF s3.lastIncomingAudioTime # 0
                                THEN s3.lastIncomingAudioTime
                                ELSE IF s3._speechStartMs # 0 THEN s3._speechStartMs
                                ELSE t
                silenceMs == t - lastSpeechAt
            IN IF s3._speechActive /\ silenceMs > SILENCE_MS /\ ~isSpeechFrame
               THEN EndOfSpeech(s3, t)
               ELSE HandlerReturn(s3)

Vad(s, m, t) ==
    LET threshold == IF s.isSendingAudio THEN VAD_THRESHOLD_WHILE_PLAYING
                     ELSE VAD_THRESHOLD
        isSpeechFrame == m.level > threshold
        warmupNeeded == IF s.isSendingAudio THEN SPEECH_WARMUP_FRAMES_WHILE_PLAYING
                        ELSE SPEECH_WARMUP_FRAMES
        s0 == [s EXCEPT !._speechWarmup = IF isSpeechFrame THEN @ + 1 ELSE 0]
        isSpeechStartConfirmed == s0._speechWarmup >= warmupNeeded
    IN IF ~s0._speechActive /\ ~isSpeechStartConfirmed THEN HandlerReturn(s0)
       ELSE LET s1 == IF ~s0._speechActive THEN SpeechStart(s0, t) ELSE s0
                s2 == [s1 EXCEPT !._segmentBuffers = Append(@, m)]
                s3 == IF isSpeechFrame
                      THEN [s2 EXCEPT !.lastIncomingAudioTime = t,
                                      !._segmentLastNonSilentIndex =
                                          Len(s2._segmentBuffers) - 1]
                      ELSE s2
                lastSpeechAt == IF s3.lastIncomingAudioTime # 0
                                THEN s3.lastIncomingAudioTime
                                ELSE IF s3._speechStartMs # 0 THEN s3._speechStartMs
                                ELSE t
                silenceMs == t - lastSpeechAt
            IN IF s3._speechActive /\ silenceMs > SILENCE_MS /\ ~isSpeechFrame
               THEN EndOfSpeech(s3, t)
               ELSE HandlerReturn(s3)

\* Lines 435-452: after the registry lookup of a media event before start
MediaBeforeStart(s, m, t) ==
    LET s1 == [s EXCEPT !.onStreamSidReady = @ \/ s.callSid,
                        !.connected = TRUE]
        s2 == IF ~s1.initialMessageSent /\ s1.callSid /\ s1.streamSid
                 /\ s1.startReceived /\ s1.onStreamSidReady
              THEN onStreamSidReady(s1) ELSE s1
    IN Vad(s2, m, t)

\* handleInboundMediaMessage up to its first await
\* A handler without the track filter of line 396
handleInboundMediaMessage_anytrack(s, m, t) ==
    IF s._greetingInProgress THEN HandlerReturn(s)
    ELSE IF ~s.startReceived /\ m.sid
    THEN LET s1 == [s EXCEPT !.streamSid = TRUE, !.startReceived = TRUE]
         IN IF ~s1.callSid
            THEN [s1 EXCEPT !.handler = [pc |-> "lookup", msg |-> m,
                                         seg |-> <<>>, wait |-> 0]]
            ELSE MediaBeforeStart(s1, m, t)
    ELSE Vad(s, m, t)

handleInboundMediaMessage(s, m, t) ==
    IF m.track # "inbound" THEN HandlerReturn(s)
    ELSE IF s._greetingInProgress THEN HandlerReturn(s)
    ELSE IF ~s.startReceived /\ m.sid
    THEN LET s1 == [s EXCEPT !.streamSid = TRUE, !.startReceived = TRUE]
         IN IF ~s1.callSid
            THEN [s1 EXCEPT !.handler = [pc |-> "lookup", msg |-> m,
                                         seg |-> <<>>, wait |-> 0]]
            ELSE MediaBeforeStart(s1, m, t)
    ELSE Vad(s, m, t)

---------------------------------------------------------------------------
(* The start branch of ws.on("message") after the callSid binding           *)
(* (lines 1478-1525); the start event carries a streamSid.                  *)

\* A start branch that marks the start as received without the stream
StartBranch_nosid(s) ==
    IF ~s.callSid THEN s
    ELSE LET s1 == [s EXCEPT !.startReceived = TRUE]
         IN IF s1.connected
            THEN IF s1.onStreamSidReady THEN onStreamSidReady(s1) ELSE s1
            ELSE [s1 EXCEPT !.waitForConnected = @ + 1]

StartBranch(s) ==
    IF ~s.callSid THEN s
    ELSE LET s1 == [s EXCEPT !.streamSid = TRUE, !.startReceived = TRUE]
         IN IF s1.connected
            THEN IF s1.onStreamSidReady THEN onStreamSidReady(s1) ELSE s1
            ELSE [s1 EXCEPT !.waitForConnected = @ + 1]

\* The connected branch of ws.on("message") (lines 1410-1433)
ConnectedBranch(s) ==
    LET s1 == [s EXCEPT !.connected = TRUE]
    IN IF s.callSid /\ s1.startReceived /\ s1.streamSid /\ s1.onStreamSidReady
       THEN onStreamSidReady(s1) ELSE s1

---------------------------------------------------------------------------
(* Scheduling.  A continuation whose awaited send has settled, and the next *)
(* handler of the media chain, are microtasks: they run before any other    *)
(* event of the loop.                                                       *)

Kinds == {"turns", "inits"}

\* The reasons requestStopAudio is called with (lines 350, 495, 1632)
StopReasons == {"caller_speech", "before_filler", "new_ai_response"}

Resumable(s, task) == task.pc \in {"stopWait", "sendWait"} /\ ~InFlight(s, task.wait)

Urgent(s) ==
    \/ s.handler.pc = "idle" /\ s._mediaChain # <<>>
    \/ s.handler.pc = "fillerStop" /\ ~InFlight(s, s.handler.wait)
    \/ \E kind \in Kinds : \E k \in 1..Len(s[kind]) : Resumable(s, s[kind][k])

\* The bounds of the model on the tasks of a session
Bounded(s) == Len(s.sends) <= bound.gen /\ Len(s.inits) <= bound.init

Step(s) ==
    /\ Bounded(s)
    /\ session' = s

Macrotask == ~Urgent(session)

PeerSends == Macrotask /\ ~stopReceived /\ session.ws = "OPEN"

---------------------------------------------------------------------------
(* WebSocket events *)

Init ==
    /\ session \in {initializeSession(c) : c \in BOOLEAN}
    /\ now = TickMs
    /\ codec = NoCodec
    /\ preGeneratedAudioCache \in BOOLEAN
    /\ fillerAudioCache \in BOOLEAN
    /\ stopReceived = FALSE
    /\ events = [connected |-> 0, start |-> 0, media |-> 0]
    /\ bound = [connected |-> MaxConnected, start |-> MaxStart, media |-> MaxMedia,
                short |-> TRUE, transcripts |-> Transcripts,
                actions |-> ClassifierActions, reply |-> ReplyBytes,
                gen |-> MaxGen, init |-> MaxInit, nowMs |-> TickMs * (1 + MaxTicks),
                storeFaults |-> TRUE]

Connected ==
    /\ PeerSends
    /\ events.connected < bound.connected
    /\ events' = [events EXCEPT !.connected = @ + 1]
    /\ Step(ConnectedBranch(session))
    /\ UNCHANGED <<codec, bound, now, preGeneratedAudioCache, fillerAudioCache, stopReceived>>

\* A start event; c: it carries a callSid (or accountSid)
Start ==
    /\ PeerSends
    /\ events.start < bound.start
    /\ session.startLookup = "idle"
    /\ events' = [events EXCEPT !.start = @ + 1]
    /\ \E c \in BOOLEAN :
          IF session.callSid
          THEN Step(StartBranch(session))
          ELSE IF c
          THEN Step(StartBranch([session EXCEPT !.callSid = TRUE,
                                                !.onStreamSidReady = TRUE]))
          ELSE Step([session EXCEPT !.startLookup = "lookup"])
    /\ UNCHANGED <<codec, bound, now, preGeneratedAudioCache, fillerAudioCache, stopReceived>>

\* The registry lookup of the start branch returns (lines 1456-1474)
StartLookupDone ==
    /\ Macrotask
    /\ session.startLookup = "lookup"
    /\ \E found \in BOOLEAN :
          LET s1 == [session EXCEPT !.startLookup = "idle"]
          IN IF found
             THEN Step(StartBranch([s1 EXCEPT !.callSid = TRUE,
                                              !.onStreamSidReady = TRUE]))
             ELSE Step(StartBranch(s1))
    /\ UNCHANGED <<codec, bound, now, preGeneratedAudioCache, fillerAudioCache, stopReceived, events>>

\* A tick of the waitForConnected interval (lines 1506-1523)
WaitForConnectedTick ==
    /\ Macrotask
    /\ session.waitForConnected > 0
    /\ session.connected
    /\ LET s1 == [session EXCEPT !.waitForConnected = @ - 1]
       IN Step(IF s1.onStreamSidReady THEN onStreamSidReady(s1) ELSE s1)
    /\ UNCHANGED <<codec, bound, now, preGeneratedAudioCache, fillerAudioCache, stopReceived, events>>

\* The interval gives up after 50 attempts
WaitForConnectedTimeout ==
    /\ Macrotask
    /\ session.waitForConnected > 0
    /\ ~session.connected
    /\ Step([session EXCEPT !.waitForConnected = @ - 1])
    /\ UNCHANGED <<codec, bound, now, preGeneratedAudioCache, fillerAudioCache, stopReceived, events>>

\* The media messages the peer may send next.  Where the handler does not
\* read a field the model fixes it: msg.streamSid is read only before start
\* (line 406), the payload of a frame of another track is not read at all
\* (line 396), and a silent frame has the full length.
MediaMessages ==
    LET sids == IF session.startReceived THEN {TRUE} ELSE BOOLEAN
        lengths == IF bound.short THEN FrameBytes ELSE {chunkSize}
        frame(tr, sid, lv, b) ==
            [track |-> tr, sid |-> sid, level |-> lv, bytes |-> b, n |-> events.media + 1]
    IN { frame("inbound", sid, lv, b) : sid \in sids, lv \in Levels \ {0}, b \in lengths }
       \cup { frame("inbound", sid, 0, chunkSize) : sid \in sids }
       \cup { frame("outbound", TRUE, 0, chunkSize) }

\* A media event: its handler is chained behind the handlers before it.
\* events.media counts the media events that changed the session; one that
\* leaves it as it is (a frame of another track, a frame dropped during the
\* greeting, silence while nobody speaks) is a stuttering step.
Media ==
    /\ PeerSends
    /\ events.media < bound.media
    /\ \E m \in MediaMessages :
          /\ IF session.handler.pc = "idle" /\ session._mediaChain = <<>>
             THEN Step(handleInboundMediaMessage(session, m, now))
             ELSE /\ Len(session._mediaChain) < MaxChain
                  /\ Step([session EXCEPT !._mediaChain = Append(@, m)])
          /\ events' = IF session' = session THEN events
                       ELSE [events EXCEPT !.media = @ + 1]
    /\ UNCHANGED <<codec, bound, now, preGeneratedAudioCache, fillerAudioCache, stopReceived>>

\* The chain runs the handler of the next waiting media message
MediaNext ==
    /\ session.handler.pc = "idle"
    /\ session._mediaChain # <<>>
    /\ Step(handleInboundMediaMessage([session EXCEPT !._mediaChain = Tail(@)],
                                      Head(session._mediaChain), now))
    /\ UNCHANGED <<codec, bound, now, preGeneratedAudioCache, fillerAudioCache, stopReceived, events>>

\* The registry lookup of a media event before start returns (lines 415-433)
MediaLookupDone ==
    /\ Macrotask
    /\ session.handler.pc = "lookup"
    /\ \E found \in BOOLEAN :
          Step(MediaBeforeStart([session EXCEPT !.callSid = @ \/ found],
                                session.handler.msg, now))
    /\ UNCHANGED <<codec, bound, now, preGeneratedAudioCache, fillerAudioCache, stopReceived, events>>

\* stopOngoingAudio(session, "before_filler") returns
FillerStopResume ==
    /\ session.handler.pc = "fillerStop"
    /\ ~InFlight(session, session.handler.wait)
    /\ Step(FillerLookup(session, session.handler.seg))
    /\ UNCHANGED <<codec, bound, now, preGeneratedAudioCache, fillerAudioCache, stopReceived, events>>

\* The filler audio arrives from the object store or from synthesis (lines
\* 359-371), or both fail and maybePlayFillerAizuchi returns without a send
FillerFetchDone ==
    /\ Macrotask
    /\ session.handler.pc = "fillerLoad"
    /\ \E ok \in BOOLEAN :
          IF ok
          THEN /\ fillerAudioCache' = TRUE
               /\ Step(FillerPlay(session, session.handler.seg))
          ELSE /\ UNCHANGED fillerAudioCache
               /\ Step(AfterFiller(session, session.handler.seg))
    /\ UNCHANGED <<codec, bound, now, preGeneratedAudioCache, stopReceived, events>>

\* The peer's stop event: ws.on("message") has no branch for it
Stop ==
    /\ PeerSends
    /\ stopReceived' = TRUE
    /\ UNCHANGED <<codec, bound, session, now, preGeneratedAudioCache, fillerAudioCache, events>>

\* The WebSocket closes: ws.on("close") removes the session from
\* activeSessions (lines 1535-1543) and leaves its timers and tasks alone
Close ==
    /\ Macrotask
    /\ session.ws = "OPEN"
    /\ Step([session EXCEPT !.ws = "CLOSED"])
    /\ UNCHANGED <<codec, bound, now, preGeneratedAudioCache, fillerAudioCache, stopReceived, events>>

\* Time passes.  Date.now() is read by handleInboundMediaMessage only, and
\* only differences of its values within one utterance are used (silenceMs,
\* speechMs): the clock is stepped while an utterance is open.
Tick ==
    /\ Macrotask
    /\ session._speechActive
    /\ now + TickMs <= bound.nowMs
    /\ now' = now + TickMs
    /\ UNCHANGED <<codec, bound, session, preGeneratedAudioCache, fillerAudioCache, stopReceived, events>>

---------------------------------------------------------------------------
(* Timers and sends *)

\* The 20 ms sleep of the send loop of generation g ends
SendTick ==
    /\ Macrotask
    /\ \E g \in 1..Len(session.sends) :
          /\ InFlight(session, g)
          /\ IF session.ws = "OPEN"
             THEN Step(SendLoop(session, g))
             ELSE \E throws \in BOOLEAN : Step(SendLoopClosed(session, g, throws))
    /\ UNCHANGED <<codec, bound, now, preGeneratedAudioCache, fillerAudioCache, stopReceived, events>>

\* The merge timer fires
PendingTimerFire ==
    /\ Macrotask
    /\ session._pendingProcessTimer
    /\ Step(PendingTimerCallback(session))
    /\ UNCHANGED <<codec, bound, now, preGeneratedAudioCache, fillerAudioCache, stopReceived, events>>

---------------------------------------------------------------------------
(* sendInitialMessage after its first await *)

\* Lines 1197-1212 and 1239-1246: the greeting audio was found
\* A fast path that sends the default greeting only once the call document
\* has arrived
InitSendGreeting_awaitdoc(s, k) ==
    IF s.callDocs[s.inits[k].doc] = "pending" THEN s
    ELSE sendAudioViaWebSocket([s EXCEPT !.initialMessageSent = TRUE,
                                         !.inits = RemoveAt(@, k)],
                               GreetingLen, "greeting", TRUE)

InitSendGreeting(s, k) ==
    sendAudioViaWebSocket([s EXCEPT !.initialMessageSent = TRUE,
                                    !.inits = RemoveAt(@, k)],
                          GreetingLen, "greeting", TRUE)

\* loadPreGeneratedInitialAudio of the default key returns (line 1192): the
\* file of the bucket, or null when the read fails (lines 567-570)
InitLoadDefaultDone ==
    /\ Macrotask
    /\ \E k \in 1..Len(session.inits) :
          /\ session.inits[k].pc = "load1"
          /\ \E found \in (IF bound.storeFaults THEN BOOLEAN ELSE {TRUE}) :
                IF found
                THEN /\ preGeneratedAudioCache' = TRUE
                     /\ Step(InitSendGreeting(session, k))
                ELSE /\ UNCHANGED preGeneratedAudioCache
                     /\ Step([session EXCEPT !.inits[k].pc = "load2"])
    /\ UNCHANGED <<codec, bound, now, fillerAudioCache, stopReceived, events>>

\* The call document and the lookup by the call's settings return (lines
\* 1215-1246): an error ends the call, the audio is found, or it is not and
\* the greeting is synthesized on demand
InitLoadForCallDone ==
    /\ Macrotask
    /\ \E k \in 1..Len(session.inits) :
          /\ session.inits[k].pc = "load2"
          /\ \E res \in {"error", "found", "notfound"} :
                LET s0 == [session EXCEPT !.callDocs[session.inits[k].doc] = "settled"] IN
                CASE res = "error" ->
                       /\ UNCHANGED preGeneratedAudioCache
                       /\ Step([s0 EXCEPT !.inits = RemoveAt(@, k)])
                  [] res = "found" ->
                       /\ preGeneratedAudioCache' = TRUE
                       /\ Step(InitSendGreeting(s0, k))
                  [] res = "notfound" ->
                       /\ ~preGeneratedAudioCache
                       /\ UNCHANGED preGeneratedAudioCache
                       /\ Step([s0 EXCEPT !.initialMessageSent = TRUE,
                                          !.inits[k].pc = "synth"])
    /\ UNCHANGED <<codec, bound, now, fillerAudioCache, stopReceived, events>>

---------------------------------------------------------------------------
(* sendAudioResponseViaMediaStream after its awaits *)

\* The synthesis (registry, TTS, transcoder) returns or throws
SynthDone ==
    /\ Macrotask
    /\ \E kind \in Kinds : \E k \in 1..Len(session[kind]) :
          /\ session[kind][k].pc = "synth"
          /\ \/ Step(ResponseReturn(session, kind, k))
             \/ \E b \in bound.reply :
                   Step(ResponseStop([session EXCEPT ![kind][k].bytes = b], kind, k))
    /\ UNCHANGED <<codec, bound, now, preGeneratedAudioCache, fillerAudioCache, stopReceived, events>>

\* stopOngoingAudio(session, "new_ai_response") returns
StopWaitResume ==
    /\ \E kind \in Kinds : \E k \in 1..Len(session[kind]) :
          /\ session[kind][k].pc = "stopWait"
          /\ ~InFlight(session, session[kind][k].wait)
          /\ Step(ResponseSend(session, kind, k))
    /\ UNCHANGED <<codec, bound, now, preGeneratedAudioCache, fillerAudioCache, stopReceived, events>>

\* The awaited send returns (lines 1636-1646); a completed on-demand greeting
\* is saved, which fills the memory cache
SendWaitResume ==
    /\ \E kind \in Kinds : \E k \in 1..Len(session[kind]) :
          LET task == session[kind][k] IN
          /\ task.pc = "sendWait"
          /\ ~InFlight(session, task.wait)
          /\ preGeneratedAudioCache' =
                 (preGeneratedAudioCache
                  \/ (task.text = GREETING_TEXT
                      /\ session.sends[task.wait].status = "completed"))
          /\ Step(ResponseReturn(session, kind, k))
    /\ UNCHANGED <<codec, bound, now, fillerAudioCache, stopReceived, events>>

---------------------------------------------------------------------------
(* processIncomingAudio after its first await *)

Farewell == "farewell"          \* line 953
TakeMessage == "take_message"   \* line 975
Closing == "closing"            \* line 1010
PleaseRepeat == "repeat"        \* line 925
\* What the conversational LLM may answer (line 1078): some reply, or the
\* very words of the greeting
ChatReplies == {"chat", GREETING_TEXT}

\* What a turn has done so far for its segment is kept in its task: log, the
\* roles of the messages it has appended to the conversations of the call
\* document, and calls, the services it has called.

\* Lines 933-945: the user message is appended
UserAppend(task) == [task EXCEPT !.log = Append(@, "user")]

\* A reply that is spoken without being appended
AssistantReply_unlogged(task, text) == [task EXCEPT !.pc = "synth", !.text = text]

\* The assistant message is appended (lines 956, 978, 1012, 1035, 1088) and
\* sendAudioResponseViaMediaStream is called with it
AssistantReply(task, text) ==
    [task EXCEPT !.pc = "synth", !.text = text, !.log = Append(@, "assistant")]

\* A farewell route that stops the audio being sent before its synthesis
FarewellRoute_stopfirst(s, k, task) ==
    requestStopAudio([s EXCEPT !.farewellTriggered = TRUE,
                               !.turns[k] = AssistantReply(task, Farewell)],
                     "new_ai_response")

\* Lines 952-972 and 1031-1051: the farewell is appended and spoken
FarewellRoute(s, k, task) ==
    [s EXCEPT !.farewellTriggered = TRUE,
              !.turns[k] = AssistantReply(task, Farewell)]

\* A closing route that leaves purpose_captured as it is
ClosingRoute_nopurpose(s, k, task) ==
    [s EXCEPT !._closingAsked = TRUE,
              !.turns[k] = AssistantReply(task, Closing)]

\* Lines 996-1028: the classifier answered closing
ClosingRoute(s, k, task) ==
    [s EXCEPT !._purposeCaptured = TRUE,
              !._closingAsked = TRUE,
              !.turns[k] = AssistantReply(task, Closing)]

\* An empty transcript that is appended as a user message all the same
EmptyTranscript_logged(task) ==
    [UserAppend(task) EXCEPT !.pc = "synth", !.text = PleaseRepeat]

\* Lines 922-927: no text, the caller is asked to repeat
EmptyTranscript(task) == [task EXCEPT !.pc = "synth", !.text = PleaseRepeat]

\* Lines 841-864: ffmpeg has written the WAV file, it is read and both
\* temporary files are unlinked
Transcoded(s, k) ==
    [s EXCEPT !.tmpFiles = @ \ {<<"ulaw", s.turns[k].timestamp>>,
                                 <<"wav", s.turns[k].timestamp>>}]

\* Line 857 throws (wav: ffmpeg had created its output file): the catch of
\* line 1106 is reached with the files of lines 842-843 in place
TranscoderFailed(s, k, wav) ==
    IF wav THEN [s EXCEPT !.tmpFiles = @ \cup {<<"wav", s.turns[k].timestamp>>}]
    ELSE s

\* Transcoding and STT return: an error, no text, or the caller's words
\* ("nomore": they contain a phrase of detectNoMoreRequests)
SttDone ==
    /\ Macrotask
    /\ \E k \in 1..Len(session.turns) :
          /\ session.turns[k].pc = "stt"
          /\ \E res \in {"error", ""} \cup bound.transcripts :
                CASE res = "error" ->
                       \/ \E wav \in BOOLEAN :
                             Step(TurnFinally(TranscoderFailed(session, k, wav), k))
                       \/ Step(TurnFinally(Transcoded(session, k), k))
                  [] res = "" ->
                       Step([Transcoded(session, k) EXCEPT !.turns[k] = EmptyTranscript(@)])
                  [] OTHER ->
                       Step([Transcoded(session, k) EXCEPT !.turns[k].pc = "classify",
                                                           !.turns[k].userMessage = res])
    /\ UNCHANGED <<codec, bound, now, preGeneratedAudioCache, fillerAudioCache, stopReceived, events>>

\* Lines 1031: the fallback of the normal route
\* A detector that finds no phrase
detectNoMoreRequests_never(userMessage) == FALSE

detectNoMoreRequests(userMessage) == userMessage = "nomore"

\* The user message is logged and the classifier answers (lines 929-1051),
\* or the registry write throws
ClassifyDone ==
    /\ Macrotask
    /\ \E k \in 1..Len(session.turns) :
          /\ session.turns[k].pc = "classify"
          /\ \/ Step(TurnFinally(session, k))
             \/ \E action \in bound.actions :
                   LET task == [UserAppend(session.turns[k])
                                   EXCEPT !.calls = @ \cup {"classifier"},
                                          !.cls = action] IN
                   CASE action = "farewell" ->
                          Step(FarewellRoute(session, k, task))
                     [] action = "take_message" ->
                          Step([session EXCEPT !.turns[k] = AssistantReply(task, TakeMessage)])
                     [] action = "closing" ->
                          Step(ClosingRoute(session, k, task))
                     [] OTHER ->
                          IF session._closingAsked
                             /\ detectNoMoreRequests(session.turns[k].userMessage)
                          THEN Step(FarewellRoute(session, k, task))
                          ELSE Step([session EXCEPT !.turns[k] = [task EXCEPT !.pc = "chat"]])
    /\ UNCHANGED <<codec, bound, now, preGeneratedAudioCache, fillerAudioCache, stopReceived, events>>

\* The conversational LLM answers (lines 1055-1103), or a call throws
ChatDone ==
    /\ Macrotask
    /\ \E k \in 1..Len(session.turns) :
          /\ session.turns[k].pc = "chat"
          /\ \/ Step(TurnFinally(session, k))
             \/ \E aiResponse \in ChatReplies :
                   Step([session EXCEPT !.turns[k] =
                           AssistantReply([session.turns[k] EXCEPT !.calls = @ \cup {"chat"}],
                                          aiResponse)])
    /\ UNCHANGED <<codec, bound, now, preGeneratedAudioCache, fillerAudioCache, stopReceived, events>>

---------------------------------------------------------------------------

\* Call setup.  With at most MaxMedia + 1 media events no utterance reaches
\* MIN_SPEECH_FRAMES, so the filler, the merge timer and the turn are never
\* started and their continuations are not part of Next.
Next ==
    \/ Connected
    \/ Start
    \/ StartLookupDone
    \/ WaitForConnectedTick
    \/ WaitForConnectedTimeout
    \/ Media
    \/ MediaNext
    \/ MediaLookupDone
    \/ Stop
    \/ Tick
    \/ SendTick
    \/ InitLoadDefaultDone
    \/ InitLoadForCallDone
    \/ SynthDone
    \/ StopWaitResume
    \/ SendWaitResume

Spec == Init /\ [][Next]_vars

\* Call setup when the stored greeting can be read: the bucket holds the
\* default greeting and its read does not fail, so sendInitialMessage never
\* reaches the lookup by the call's settings or the synthesis.  Timers fire
\* and reads and lookups return (weak fairness of their continuations).
LiveInit ==
    /\ session \in {initializeSession(c) : c \in BOOLEAN}
    /\ now = TickMs
    /\ codec = NoCodec
    /\ preGeneratedAudioCache \in BOOLEAN
    /\ fillerAudioCache \in BOOLEAN
    /\ stopReceived = FALSE
    /\ events = [connected |-> 0, start |-> 0, media |-> 0]
    /\ bound = [connected |-> MaxConnected, start |-> MaxStart, media |-> MaxMedia,
                short |-> TRUE, transcripts |-> Transcripts,
                actions |-> ClassifierActions, reply |-> ReplyBytes,
                gen |-> MaxGen, init |-> MaxInit, nowMs |-> TickMs * (1 + MaxTicks),
                storeFaults |-> FALSE]

LiveNext ==
    \/ Connected
    \/ Start
    \/ StartLookupDone
    \/ WaitForConnectedTick
    \/ WaitForConnectedTimeout
    \/ Media
    \/ MediaNext
    \/ MediaLookupDone
    \/ Stop
    \/ Tick
    \/ SendTick
    \/ InitLoadDefaultDone

LiveSpec ==
    /\ LiveInit
    /\ [][LiveNext]_vars
    /\ WF_vars(StartLookupDone)
    /\ WF_vars(WaitForConnectedTick)
    /\ WF_vars(MediaNext)
    /\ WF_vars(MediaLookupDone)
    /\ WF_vars(SendTick)
    /\ WF_vars(InitLoadDefaultDone)

\* The established call: the session after connected and a start event with
\* a callSid and a streamSid.  The greeting is in flight (memory cache hit) or
\* sendInitialMessage awaits the bucket, which holds the default greeting.
Established(b) ==
    /\ now = TickMs
    /\ codec = NoCodec
    /\ preGeneratedAudioCache \in BOOLEAN
    /\ fillerAudioCache \in BOOLEAN
    /\ stopReceived = FALSE
    /\ events = [connected |-> 1, start |-> 1, media |-> 0]
    /\ bound = b
    /\ session = StartBranch([ConnectedBranch(initializeSession(FALSE))
                                 EXCEPT !.callSid = TRUE, !.onStreamSidReady = TRUE])

CallInit ==
    Established([connected |-> 1, start |-> 1, media |-> MaxCallMedia,
                 short |-> FALSE, transcripts |-> CallTranscripts,
                 actions |-> CallClassifierActions, reply |-> CallReplyBytes,
                 gen |-> MaxCallGen, init |-> 1, nowMs |-> TickMs * (1 + MaxCallTicks),
                 storeFaults |-> FALSE])

\* The stop event has no handler: a session whose peer has sent it behaves as
\* one whose peer sends nothing more, and CallNext leaves the event out.
CallNext ==
    \/ Media
    \/ MediaNext
    \/ FillerStopResume
    \/ FillerFetchDone
    \/ Tick
    \/ SendTick
    \/ PendingTimerFire
    \/ InitLoadDefaultDone
    \/ SynthDone
    \/ StopWaitResume
    \/ SendWaitResume
    \/ SttDone
    \/ ClassifyDone
    \/ ChatDone

CallSpec == CallInit /\ [][CallNext]_vars

UtteranceInit ==
    Established([connected |-> 1, start |-> 1, media |-> MaxUtteranceMedia,
                 short |-> TRUE, transcripts |-> CallTranscripts,
                 actions |-> CallClassifierActions, reply |-> CallReplyBytes,
                 gen |-> MaxUtteranceGen, init |-> 1,
                 nowMs |-> TickMs * (1 + MaxUtteranceTicks),
                 storeFaults |-> FALSE])

\* With MaxUtteranceMedia + 1 media events no end of speech comes while a
\* send other than the greeting is in flight: stopOngoingAudio of the filler
\* never waits, and FillerStopResume is not part of UtteranceNext.
UtteranceNext ==
    \/ Media
    \/ MediaNext
    \/ FillerFetchDone
    \/ Tick
    \/ SendTick
    \/ PendingTimerFire
    \/ InitLoadDefaultDone
    \/ SynthDone
    \/ StopWaitResume
    \/ SendWaitResume
    \/ SttDone
    \/ ClassifyDone
    \/ ChatDone

UtteranceSpec == UtteranceInit /\ [][UtteranceNext]_vars

\* The turns of the established call on a warm server (the greeting and the
\* filler are in the memory caches), with every transcript and every answer
\* of the classifier
TurnInit ==
    /\ Established([connected |-> 1, start |-> 1, media |-> MaxCallMedia,
                    short |-> FALSE, transcripts |-> Transcripts,
                    actions |-> ClassifierActions, reply |-> CallReplyBytes,
                    gen |-> MaxCallGen, init |-> 1,
                    nowMs |-> TickMs * (1 + MaxCallTicks),
                    storeFaults |-> FALSE])
    /\ preGeneratedAudioCache
    /\ fillerAudioCache

\* With MaxCallMedia + 1 media events none arrives while the handler of the
\* second end of speech waits for a send to stop: _mediaChain stays empty and
\* MediaNext is not part of TurnNext.
TurnNext ==
    \/ Media
    \/ FillerStopResume
    \/ Tick
    \/ SendTick
    \/ PendingTimerFire
    \/ SynthDone
    \/ StopWaitResume
    \/ SendWaitResume
    \/ SttDone
    \/ ClassifyDone
    \/ ChatDone

TurnSpec == TurnInit /\ [][TurnNext]_vars

\* The first utterance of a call whose WebSocket closes at some point
CloseNext ==
    \/ UtteranceNext
    \/ Close

CloseSpec == UtteranceInit /\ [][CloseNext]_vars

---------------------------------------------------------------------------
(* Properties *)

RECURSIVE Sum(_)
Sum(q) == IF q = <<>> THEN 0 ELSE Head(q) + Sum(Tail(q))

\* The generations whose send loop has not ended
Transmitting == {g \in 1..Len(session.sends) : session.sends[g].status = "sending"}

\* The media and mark frames the agent has sent so far
Emitted(s) ==
    Sum([g \in 1..Len(s.sends) |->
            Len(s.sends[g].sent) + (IF s.sends[g].mark THEN 1 ELSE 0)])

\* The VAD state of the session
VadState(s) ==
    <<s._speechActive, s._speechWarmup, s._segmentBuffers,
      s._segmentLastNonSilentIndex, s._segmentStartMs, s.lastIncomingAudioTime>>

\* C1: at any instant at most one audio-send generation is transmitting, and
\* while isSendingAudio is true the transmitting generation is
\* _activeAudioGen.
C1_OneSendAtATime ==
    /\ Cardinality(Transmitting) <= 1
    /\ session.isSendingAudio => Transmitting \subseteq {session._activeAudioGen}

\* C2: a send started as uninterruptible is never the target of a stop, and
\* when it has ended it has sent every chunk of its payload and its mark.
C2_GreetingRunsToItsMark ==
    \A g \in 1..Len(session.sends) :
        LET r == session.sends[g] IN
        r.uninterruptible =>
            /\ session._stopAudioGen # g
            /\ r.status # "interrupted"
            /\ r.status = "completed" =>
                   r.mark /\ Len(r.sent) = r.totalChunks /\ Sum(r.sent) = r.bytes

\* A greeting that was asked to stop while it was the active generation has
\* ended with all its chunks and its mark.
C2_Witness ==
    \E g \in 1..Len(session.sends) :
        LET r == session.sends[g] IN
        /\ r.uninterruptible /\ r.stopIgnored
        /\ r.status = "completed" /\ r.mark /\ Len(r.sent) = r.totalChunks

\* C3: once the caller's speech has asked the active, interruptible send to
\* stop, that generation sends no further chunk and no mark, and its send
\* does not complete.
C3_CallerStopCuts ==
    \A g \in 1..Len(session.sends) :
        LET r == session.sends[g] IN
        r.callerStopAt >= 0 =>
            Len(r.sent) = r.callerStopAt /\ ~r.mark /\ r.status # "completed"

\* C4: the greeting is sent at most once in a session.
C4_OneGreeting ==
    Cardinality({g \in 1..Len(session.sends) : session.sends[g].label = "greeting"}) <= 1

C7_NoValidUtteranceDropped ==
    (/\ session.lastEos.frames >= MIN_SPEECH_FRAMES
     /\ session.lastEos.bytes >= MIN_SPEECH_BYTES
     /\ session.lastEos.wallMs >= MIN_SPEECH_MS) => session.lastEos.accepted

\* C8: every accepted segment has at least MIN_SPEECH_FRAMES frames and
\* MIN_SPEECH_BYTES bytes and lasted at least MIN_SPEECH_MS.
C8_AcceptedMeetsMinima ==
    /\ session.lastEos.accepted =>
          /\ session.lastEos.frames >= MIN_SPEECH_FRAMES
          /\ session.lastEos.bytes >= MIN_SPEECH_BYTES
          /\ session.lastEos.wallMs >= MIN_SPEECH_MS
    /\ \A i \in 1..Len(session.acceptedSegs) :
          /\ Len(session.acceptedSegs[i]) >= MIN_SPEECH_FRAMES
          /\ SumBytes(session.acceptedSegs[i]) >= MIN_SPEECH_BYTES

\* A segment with a short frame was accepted.
C8_Witness ==
    /\ session.lastEos.accepted
    /\ session.lastEos.bytes % chunkSize # 0

\* C9: a step that leaves the greeting in progress changes no VAD state.
C9_GreetingFreezesVad ==
    [][session'._greetingInProgress => VadState(session') = VadState(session)]_vars

\* C10: after the peer's stop event the agent sends no media or mark frame.
C10_SilentAfterStop ==
    [][stopReceived => Emitted(session') = Emitted(session)]_vars

\* C11: after the WebSocket has closed, no merge deadline fires, no turn
\* starts its transcription and no media or mark frame is sent.
C11_QuietAfterClose ==
    [][session.ws # "OPEN" =>
          /\ session'.delivered = session.delivered
          /\ session'.sttStarted = session.sttStarted
          /\ Emitted(session') = Emitted(session)]_vars

\* C12: a send that has completed has sent the chunks of its payload in
\* payload order, each starting where the one before it ended, all of the
\* payload, and then its mark; a send that was never asked to stop is not
\* cut short; a send that was asked to stop sends no mark and does not
\* complete.
C12_WholePayloadThenMark ==
    \A g \in 1..Len(session.sends) :
        LET r == session.sends[g] IN
        /\ \A j \in 1..Len(r.sent) : r.offsets[j] = Sum(SubSeq(r.sent, 1, j - 1))
        /\ r.status = "completed" =>
               Len(r.sent) = r.totalChunks /\ Sum(r.sent) = r.bytes /\ r.mark
        /\ ~r.stopRequested => r.status # "interrupted"
        /\ r.stopRequested => ~r.mark /\ r.status # "completed"

\* C13: every media frame the agent sends carries chunkSize bytes.
C13_FramesOfChunkSize ==
    \A g \in 1..Len(session.sends) :
        \A j \in 1..Len(session.sends[g].sent) : session.sends[g].sent[j] = chunkSize

\* C14: while a send is in flight, requestStopAudio sets _stopAudioGen to
\* _activeAudioGen when _uninterruptibleAudioGen is another generation (or
\* none), and changes no field of the session when it is the active one.
C14_StopIffInterruptible ==
    session.isSendingAudio =>
        \A reason \in StopReasons :
            LET after == requestStopAudio(session, reason) IN
            IF session._uninterruptibleAudioGen = session._activeAudioGen
            THEN /\ after._stopAudioGen = session._stopAudioGen
                 /\ after._stopAudioGen # session._activeAudioGen
                 /\ [after EXCEPT !.sends = session.sends] = session
            ELSE after._stopAudioGen = session._activeAudioGen

\* A stop was requested of the greeting while it was the active generation
\* and ignored, and a stop was requested of another send and taken.
C14_Witness ==
    /\ \E g \in 1..Len(session.sends) :
           session.sends[g].uninterruptible /\ session.sends[g].stopIgnored
    /\ \E g \in 1..Len(session.sends) :
           ~session.sends[g].uninterruptible /\ session.sends[g].stopRequested

\* The session has sent a greeting or is sending one
GreetingBegun(s) ==
    /\ s.initialMessageSent
    /\ \E g \in 1..Len(s.sends) : s.sends[g].label = "greeting"

\* C15: once the connected event and a start event with a streamSid have
\* arrived, in either order, and the session has its callSid, a greeting send
\* eventually begins and initialMessageSent becomes true.
C15_GreetingEventuallyBegins ==
    (/\ events.connected >= 1
     /\ events.start >= 1
     /\ session.startLookup = "idle"
     /\ session.callSid) ~> GreetingBegun(session)

\* The start event came before the connected event (the waitForConnected
\* interval is still armed) and the greeting has begun.
C15_Witness ==
    /\ events.connected >= 1
    /\ events.start >= 1
    /\ session.waitForConnected > 0
    /\ GreetingBegun(session)

\* C16: when a turn has started to send its reply, it has appended the
\* user message and then the assistant message of that turn (a please-repeat
\* reply has neither).
C16_LoggedBeforeSpoken ==
    \A k \in 1..Len(session.turns) :
        LET task == session.turns[k] IN
        task.pc = "sendWait" =>
            task.log = IF task.text = PleaseRepeat THEN <<>> ELSE <<"user", "assistant">>

\* A farewell is being sent and both of its messages are in the log.
C16_Witness ==
    \E k \in 1..Len(session.turns) :
        LET task == session.turns[k] IN
        /\ task.pc = "sendWait" /\ task.text = Farewell
        /\ task.log = <<"user", "assistant">>
        /\ Len(session.sends[task.wait].sent) >= 1

\* C17: a turn whose transcript is empty replies with the please-repeat
\* utterance without a user message in the log and without a call of the
\* classifier or the conversational LLM, and when that reply is over the turn
\* loop goes on with the next queued segment (or ends, the queue being empty).
C17_EmptyTranscriptAsksAgain ==
    [][\A k \in 1..Len(session.turns) :
          LET task == session.turns[k]
              gone == Len(session'.turns) < k
          IN /\ (task.pc = "stt" /\ ~gone /\ session'.turns[k].pc = "synth") =>
                    /\ session'.turns[k].text = PleaseRepeat
                    /\ session'.turns[k].log = <<>>
                    /\ session'.turns[k].calls = {"stt"}
             /\ (task.text = PleaseRepeat /\ ~gone /\ session'.turns[k].text = PleaseRepeat) =>
                    /\ session'.turns[k].log = <<>>
                    /\ session'.turns[k].calls = {"stt"}
             /\ (task.text = PleaseRepeat
                 /\ (gone \/ session'.turns[k].text # PleaseRepeat)) =>
                    IF session._segmentQueue # <<>>
                    THEN /\ ~gone
                         /\ session'.turns[k].pc = "stt"
                         /\ session'.turns[k].audio = Head(session._segmentQueue)
                         /\ session'._segmentQueue = Tail(session._segmentQueue)
                    ELSE gone /\ ~session'._segmentRunning]_vars

\* The please-repeat reply is being sent while a segment waits in the queue.
C17_Witness ==
    \E k \in 1..Len(session.turns) :
        LET task == session.turns[k] IN
        /\ task.text = PleaseRepeat /\ task.pc = "sendWait"
        /\ task.log = <<>>
        /\ session._segmentQueue # <<>>


\* C18: inbound events take effect in the order received: while a start
\* event is still binding the call (its registry lookup has not returned) and
\* no earlier media waits in the chain, no media event is processed, so the
\* handler position, the VAD state, stream_id and start_received stay as
\* they are until the start event has completed.
C18_StartBeforeLaterMedia ==
    [][(/\ session.startLookup = "lookup"
        /\ session'.startLookup = "lookup"
        /\ session.handler.pc = "idle"
        /\ session._mediaChain = <<>>) =>
           /\ session'.handler = session.handler
           /\ session'._mediaChain = session._mediaChain
           /\ VadState(session') = VadState(session)
           /\ session'.startReceived = session.startReceived
           /\ session'.streamSid = session.streamSid]_vars

\* C19: start_received implies that stream_id is set, and initial_sent
\* implies start_received.
C19_StartImpliesStream ==
    /\ session.startReceived => session.streamSid
    /\ session.initialMessageSent => session.startReceived

\* The greeting was started on a session whose start event has been handled.
C19_Witness ==
    /\ session.initialMessageSent
    /\ session.startReceived
    /\ session.streamSid
    /\ events.start >= 1

\* C20: once a start event (which carries a streamSid) has been handled to
\* its end, stream_id is captured and start_received is true, whether or not
\* a call_id could be bound.
C20_StartAlwaysCaptures ==
    (events.start >= 1 /\ session.startLookup = "idle") =>
        session.startReceived /\ session.streamSid

\* C21: a media event that arrives before start and carries no stream id is
\* dropped: as long as start_received stays false no step changes the VAD
\* state, the accepted segments, the pending segments or the turns.
C21_MediaBeforeStartDropped ==
    [][(~session.startReceived /\ ~session'.startReceived) =>
           /\ VadState(session') = VadState(session)
           /\ session'.acceptedSegs = session.acceptedSegs
           /\ session'._pendingUserSegments = session._pendingUserSegments
           /\ session'.turns = session.turns]_vars

\* The media messages of a track other than the caller's, with every
\* stream id, level and length the model has
OtherTrackMessages ==
    { [track |-> tr, sid |-> sid, level |-> lv, bytes |-> b, n |-> events.media + 1] :
        tr \in {"outbound", "both"}, sid \in BOOLEAN, lv \in Levels, b \in FrameBytes }

\* C22: the handler of a media event whose track is set and is not inbound
\* leaves the session as it is: the VAD state and the warm-up counter, the
\* stop request and stream_id included.
C22_OtherTrackIgnored ==
    (session.handler.pc = "idle") =>
        \A m \in OtherTrackMessages :
            LET after == handleInboundMediaMessage(session, m, now)
            IN /\ after = session
               /\ VadState(after) = VadState(session)
               /\ after._stopAudioGen = session._stopAudioGen
               /\ after.streamSid = session.streamSid
               /\ after.startReceived = session.startReceived

\* Before start and outside the greeting, where the same frame on the
\* inbound track would bind the stream and count as speech
C22_Witness ==
    /\ session.handler.pc = "idle"
    /\ ~session.startReceived
    /\ ~session._greetingInProgress
    /\ session._speechWarmup >= 1
    /\ \E m \in OtherTrackMessages :
          LET heard == handleInboundMediaMessage(session, [m EXCEPT !.track = "inbound"], now)
          IN /\ heard.startReceived
             /\ heard # session
             /\ handleInboundMediaMessage(session, m, now) = session

\* C23: a turn that the classifier routes to closing sets purpose_captured
\* and closing_asked, replies with the acknowledgement and the closing
\* question without a call of the conversational LLM, and both flags stay
\* true for the rest of the session.
C23_ClosingSetsFlags ==
    [][/\ \A k \in 1..Len(session'.turns) :
             session'.turns[k].text = Closing =>
                 /\ session'._purposeCaptured
                 /\ session'._closingAsked
                 /\ "chat" \notin session'.turns[k].calls
                 /\ session'.turns[k].log = <<"user", "assistant">>
       /\ session._purposeCaptured => session'._purposeCaptured
       /\ session._closingAsked => session'._closingAsked]_vars

\* After a turn that was routed to closing, a later turn runs with the flags set
C23_Witness ==
    /\ session._purposeCaptured
    /\ session._closingAsked
    /\ \E g \in 1..Len(session.sends) :
          session.sends[g].label = "ai_response" /\ Len(session.sends[g].sent) >= 1
    /\ \E k \in 1..Len(session.turns) :
          session.turns[k].pc = "classify" /\ session.turns[k].text # Closing

\* The classification of a turn: the step that leaves the classifier with
\* closing_asked set and a transcript holding a nothing-further phrase
NoMoreClassified(k) ==
    /\ k <= Len(session.turns) /\ k <= Len(session'.turns)
    /\ session.turns[k].pc = "classify"
    /\ session._closingAsked
    /\ session.turns[k].userMessage = "nomore"
    /\ session'.turns[k].pc \in {"synth", "chat"}

\* C24 as stated: once closing_asked is true, a turn whose transcript holds a
\* nothing-further phrase replies with the farewell and calls no
\* conversational LLM.
C24_NoMoreGivesFarewell ==
    [][\A k \in 1..Len(session.turns) :
          NoMoreClassified(k) =>
              /\ session'.turns[k].pc = "synth"
              /\ session'.turns[k].text = Farewell]_vars

\* C24 amended: such a turn never calls the conversational LLM, and it
\* replies with the farewell when the classifier answers normal (its answer
\* on a failure too) or farewell; an answer take_message or closing of the
\* classifier decides the reply instead.
C24_NoMoreGivesFarewellUnlessRouted ==
    [][\A k \in 1..Len(session.turns) :
          NoMoreClassified(k) =>
              /\ session'.turns[k].pc = "synth"
              /\ "chat" \notin session'.turns[k].calls
              /\ session'.turns[k].cls \in {"normal", "farewell"} =>
                     session'.turns[k].text = Farewell
              /\ session'.turns[k].cls = "take_message" =>
                     session'.turns[k].text = TakeMessage
              /\ session'.turns[k].cls = "closing" =>
                     session'.turns[k].text = Closing]_vars

\* The fallback has acted: the classifier answered normal and the reply is
\* the farewell
C24_Witness ==
    \E k \in 1..Len(session.turns) :
        /\ session.turns[k].cls = "normal"
        /\ session.turns[k].text = Farewell
        /\ session.turns[k].userMessage = "nomore"
        /\ session.turns[k].pc = "sendWait"
        /\ session._closingAsked

\* C25: once the farewell has been triggered in a session, no classifier and
\* no conversational LLM call is made for it, whatever segments arrive
\* afterwards.
C25_NoLlmAfterFarewell ==
    [][session.farewellTriggered =>
          \A k \in 1..Len(session'.turns) :
              k <= Len(session.turns) =>
                  session'.turns[k].calls \ session.turns[k].calls
                      \subseteq {"stt"}]_vars

\* The synthesis jobs of the greeting that are running: the calls of
\* sendInitialMessage that wait for the on-demand synthesis
GreetingSynthesisJobs ==
    {k \in 1..Len(session.inits) : session.inits[k].pc = "synth"}

\* C26: concurrent cache misses for one greeting key launch at most one
\* synthesis job: at most one on-demand synthesis of the greeting runs at any
\* time.
C26_SingleFlight == Cardinality(GreetingSynthesisJobs) <= 1

\* C27: every transcoding step removes its temporary files on every exit
\* path: when no turn is transcoding or transcribing, no temporary file of a
\* mu-law to WAV conversion is left.
C27_TempFilesRemoved ==
    (\A k \in 1..Len(session.turns) : session.turns[k].pc # "stt") =>
        session.tmpFiles = {}

---------------------------------------------------------------------------
(* The mu-law codec of the frontend (src/frontend/src/audio/mulaw.ts).  A   *)
(* JavaScript number is a sign and a magnitude: the decoder can return -0.  *)

BIAS == 132
CLIP == 32635
MuLawBytes == 0..255

\* x < 0 for a JavaScript number
IsNegative(x) == x.neg /\ x.abs > 0

\* The loop of lines 21-23
RECURSIVE ExponentOf(_, _, _)
ExponentOf(pcm, expMask, exponent) ==
    IF (pcm \div expMask) % 2 = 0 /\ exponent > 0
    THEN ExponentOf(pcm, expMask \div 2, exponent - 1)
    ELSE exponent

\* An encoder that does not add the bias of line 17
linear16ToMuLawSample_nobias(sample) ==
    LET sign == IF IsNegative(sample) THEN 128 ELSE 0
        pcm == IF sample.abs > CLIP THEN CLIP ELSE sample.abs
        exponent == ExponentOf(pcm, 16384, 7)
        mantissa == (pcm \div 2^(exponent + 3)) % 16
    IN 255 - (sign + exponent * 16 + mantissa)

\* Lines 7-27; sign, exponent << 4 and mantissa have no bit in common, and
\* ~x & 0xff is 255 - x for a byte x
linear16ToMuLawSample(sample) ==
    LET sign == IF IsNegative(sample) THEN 128 ELSE 0
        pcm0 == IF sample.abs > CLIP THEN CLIP ELSE sample.abs
        pcm == pcm0 + BIAS
        exponent == ExponentOf(pcm, 16384, 7)
        mantissa == (pcm \div 2^(exponent + 3)) % 16
    IN 255 - (sign + exponent * 16 + mantissa)

\* Lines 29-37
muLawToLinear16Sample(muLawByte) ==
    LET u == 255 - muLawByte
        sign == (u \div 128) % 2 = 1
        exponent == (u \div 16) % 8
        mantissa == u % 16
        pcm == (mantissa * 8 + BIAS) * 2^exponent - BIAS
    IN [neg |-> sign, abs |-> pcm]

CodecInit ==
    /\ codec \in {[pc |-> "byte", muLawByte |-> b] : b \in MuLawBytes}
    /\ session = initializeSession(FALSE)
    /\ now = 0
    /\ preGeneratedAudioCache = FALSE
    /\ fillerAudioCache = FALSE
    /\ stopReceived = FALSE
    /\ events = [connected |-> 0, start |-> 0, media |-> 0]
    /\ bound = [media |-> 0]

\* muLawToPcm16 of one byte
Decode ==
    /\ codec.pc = "byte"
    /\ codec' = [pc |-> "sample", muLawByte |-> codec.muLawByte,
                 sample |-> muLawToLinear16Sample(codec.muLawByte)]
    /\ UNCHANGED <<session, now, preGeneratedAudioCache, fillerAudioCache,
                   stopReceived, events, bound>>

\* linear16ToMuLawSample of the decoded sample
Encode ==
    /\ codec.pc = "sample"
    /\ codec' = [pc |-> "encoded", muLawByte |-> codec.muLawByte,
                 sample |-> codec.sample,
                 out |-> linear16ToMuLawSample(codec.sample)]
    /\ UNCHANGED <<session, now, preGeneratedAudioCache, fillerAudioCache,
                   stopReceived, events, bound>>

CodecNext == Decode \/ Encode

CodecSpec == CodecInit /\ [][CodecNext]_vars

\* C28: for every mu-law byte b the encoding of the decoded sample is b,
\* except for 0x7F, which decodes to negative zero and is encoded as 0xFF.
C28_RoundTrip ==
    codec.pc = "encoded" =>
        codec.out = IF codec.muLawByte = 127 THEN 255 ELSE codec.muLawByte

\* The byte 0x7F has made the round trip through negative zero
C28_Witness ==
    /\ codec.pc = "encoded"
    /\ codec.muLawByte = 127
    /\ codec.sample = [neg |-> TRUE, abs |-> 0]
    /\ codec.out = 255

\* C29: no accepted segment is stranded: whenever segments wait in
\* _pendingUserSegments, no speech is active and no media handler is under
\* way, the deadline timer is armed, so that the segments are handed to the
\* turn handler.
C29_PendingHasDeadline ==
    (/\ session._pendingUserSegments # <<>>
     /\ ~session._speechActive
     /\ session.handler.pc = "idle"
     /\ session._mediaChain = <<>>) => session._pendingProcessTimer

\* C30: whenever no turn is running the segment queue is empty, also after a
\* turn that ended with an error of the transcoder, STT, the registry or the
\* LLM.
C30_IdleMeansEmptyQueue ==
    ~session._segmentRunning => session._segmentQueue = <<>>

\* The frames the VAD may be given: every level at and around the two
\* thresholds, with the lengths of the model
VadFrames ==
    { [track |-> "inbound", sid |-> TRUE, level |-> lv, bytes |-> b, n |-> events.media + 1] :
        lv \in {0, VAD_THRESHOLD, VAD_THRESHOLD + 1, VAD_THRESHOLD_WHILE_PLAYING,
                VAD_THRESHOLD_WHILE_PLAYING + 1, 10},
        b \in FrameBytes }

\* C31: a frame above the threshold adds one to the run of speech frames and
\* a frame at or below it resets the run to zero; speech start is confirmed
\* exactly on a frame above the threshold with which the run reaches the
\* warm-up count, threshold and count being the while-playing values when
\* audio is being sent at that frame and the idle values otherwise.
C31_SpeechStartAfterWarmup ==
    (session.handler.pc = "idle") =>
        \A m \in VadFrames :
            LET after == Vad(session, m, now)
                threshold == IF session.isSendingAudio
                             THEN VAD_THRESHOLD_WHILE_PLAYING ELSE VAD_THRESHOLD
                warmup == IF session.isSendingAudio
                          THEN SPEECH_WARMUP_FRAMES_WHILE_PLAYING
                          ELSE SPEECH_WARMUP_FRAMES
            IN /\ m.level <= threshold => after._speechWarmup = 0
               /\ m.level > threshold =>
                      after._speechWarmup = session._speechWarmup + 1
               /\ ~session._speechActive =>
                      (after._speechActive <=>
                          m.level > threshold /\ session._speechWarmup + 1 >= warmup)

\* Speech start has just been confirmed while audio was being sent, by the
\* fourth speech frame in a row
C31_Witness ==
    /\ session._speechActive
    /\ session.isSendingAudio
    /\ Len(session._segmentBuffers) = 1
    /\ session._speechWarmup = SPEECH_WARMUP_FRAMES_WHILE_PLAYING

\* The frames of a buffer up to its last frame above the threshold
RECURSIVE TrimTrailingSilence(_)
TrimTrailingSilence(frames) ==
    IF frames = <<>> THEN <<>>
    ELSE IF frames[Len(frames)].level > VAD_THRESHOLD_WHILE_PLAYING THEN frames
    ELSE TrimTrailingSilence(SubSeq(frames, 1, Len(frames) - 1))

\* C32: the segment emitted at EOS is the buffer from the frame that
\* confirmed speech start through its last frame above the threshold: the
\* frames are consecutive and in arrival order, silent frames in between
\* are kept, the silent frames at the end are removed.
C32_SegmentTrimmedToLastSpeech ==
    [][Len(session'.acceptedSegs) = Len(session.acceptedSegs) + 1 =>
          LET seg == session'.acceptedSegs[Len(session'.acceptedSegs)]
              buf == session._segmentBuffers
          IN /\ seg = TrimTrailingSilence(buf)
             /\ seg # <<>>
             /\ buf[1].level > VAD_THRESHOLD_WHILE_PLAYING
             /\ \A i \in 1..(Len(buf) - 1) : buf[i + 1].n = buf[i].n + 1]_vars

\* An accepted segment with a silent frame between two speech frames
C32_Witness ==
    \E i \in 1..Len(session.acceptedSegs) :
        LET seg == session.acceptedSegs[i]
        IN \E j \in 2..(Len(seg) - 1) :
              /\ seg[j].level = 0
              /\ seg[1].level > 0
              /\ seg[Len(seg)].level > 0

\* C33: speech_active is false if and only if the segment buffer is empty,
\* and a step that ends the speech (EOS, with the segment accepted or
\* discarded) leaves the warm-up counter at zero and the buffer empty.
C33_ActiveIffBuffered ==
    [][/\ session'._speechActive <=> session'._segmentBuffers # <<>>
       /\ (session._speechActive /\ ~session'._speechActive) =>
              /\ session'._speechWarmup = 0
              /\ session'._segmentBuffers = <<>>
              /\ session'._segmentLastNonSilentIndex = -1]_vars

\* An utterance has been discarded at EOS and the VAD is at rest again
C33_Witness ==
    /\ session.lastEos.frames > 0
    /\ ~session.lastEos.accepted
    /\ ~session._speechActive
    /\ session._segmentBuffers = <<>>
    /\ session._speechWarmup = 0
    /\ session.handler.pc = "idle"

\* C34: every started send gets the generation after the one before it, so
\* that the sends of a session have the generations 1, 2, ... in the order
\* of their start and _activeAudioGen never decreases; _stopAudioGen, when
\* set, is at most _activeAudioGen.
C34_GenerationsMonotonic ==
    [][/\ session'._activeAudioGen = session'._audioGenCounter
       /\ session'._activeAudioGen = Len(session'.sends)
       /\ session'._activeAudioGen \in
              {session._activeAudioGen, session._activeAudioGen + 1}
       /\ \A g \in 1..Len(session.sends) :
              /\ session'.sends[g].label = session.sends[g].label
              /\ session'.sends[g].bytes = session.sends[g].bytes
       /\ session'._stopAudioGen <= session'._activeAudioGen
       /\ session'._stopAudioGen \in {0, session'._activeAudioGen}]_vars

\* The second send of the session has been asked to stop
C34_Witness ==
    /\ session._activeAudioGen >= 2
    /\ session._stopAudioGen = session._activeAudioGen
    /\ session.sends[session._activeAudioGen].status = "sending"

\* A filler is asked to stop in this step
FillerStopRequested ==
    \E g \in 1..Len(session.sends) :
        /\ session.sends[g].label = "filler"
        /\ ~session.sends[g].stopRequested
        /\ session'.sends[g].stopRequested

\* The synthesized audio of a reply (or of the greeting) has come back in
\* this step: the task leaves the await of the synthesis with its audio
ReplyReady ==
    \E kind \in Kinds : \E k \in 1..Len(session[kind]) :
        /\ session[kind][k].pc = "synth"
        /\ k <= Len(session'[kind])
        /\ session'[kind][k].pc \in {"stopWait", "sendWait"}
        /\ session'[kind][k].bytes > 0

\* C35 as stated: the filler is stopped only when the reply audio is ready
\* to be sent.
C35_FillerStoppedOnlyForReply ==
    [][FillerStopRequested => ReplyReady]_vars

\* C35 amended: a turn waits for no send while it transcribes, classifies,
\* asks the LLM or synthesizes, and merge deadlines fire and segments are
\* queued while a filler transmits; the turn handler asks a filler to stop
\* only when its reply audio is ready, and the only other stop requests to a
\* filler come from a confirmed speech start of the caller and from the
\* filler of the next accepted utterance.
C35_PipelineDoesNotWaitForFiller ==
    [][/\ \A k \in 1..Len(session'.turns) :
             session'.turns[k].pc \in {"stt", "classify", "chat", "synth"} =>
                 session'.turns[k].wait = 0
       /\ FillerStopRequested =>
             \/ ReplyReady
             \/ ~session._speechActive /\ session'._speechActive
             \/ Len(session'.acceptedSegs) = Len(session.acceptedSegs) + 1]_vars

\* The turn is at the classifier or the LLM while the filler of its
\* utterance is still being sent
C35_Witness ==
    /\ \E g \in 1..Len(session.sends) :
          /\ session.sends[g].label = "filler"
          /\ session.sends[g].status = "sending"
          /\ ~session.sends[g].stopRequested
          /\ Len(session.sends[g].sent) >= 1
    /\ \E k \in 1..Len(session.turns) : session.turns[k].pc \in {"classify", "chat"}
    /\ session.delivered # <<>>

\* The call document arrives while nothing waits for it (line 1187: the
\* fetch is started before the greeting is looked up and is awaited only at
\* line 1215)
CallDocDone ==
    /\ Macrotask
    /\ \E i \in 1..Len(session.callDocs) :
          /\ session.callDocs[i] = "pending"
          /\ Step([session EXCEPT !.callDocs[i] = "settled"])
    /\ UNCHANGED <<codec, bound, now, preGeneratedAudioCache, fillerAudioCache,
                   stopReceived, events>>

\* The call setup with a bucket that holds the default greeting and a
\* registry that answers the fetch of the call document at any time or
\* never: no fairness for CallDocDone
GreetingNext == LiveNext \/ CallDocDone

GreetingSpec ==
    /\ LiveInit
    /\ [][GreetingNext]_vars
    /\ WF_vars(StartLookupDone)
    /\ WF_vars(WaitForConnectedTick)
    /\ WF_vars(MediaNext)
    /\ WF_vars(MediaLookupDone)
    /\ WF_vars(SendTick)
    /\ WF_vars(InitLoadDefaultDone)

\* C36: with a default pre-rendered greeting available, once
\* sendInitialMessage has started the fetch of the call document the greeting
\* send begins, whether or not that fetch ever completes.
C36_GreetingDoesNotWaitForCallDoc ==
    (session.callDocs # <<>>) ~> GreetingBegun(session)

\* The first chunk of the default greeting has been sent
\* while the fetch of the call document is still pending
C36_Witness ==
    /\ GreetingBegun(session)
    /\ \E g \in 1..Len(session.sends) :
          session.sends[g].label = "greeting" /\ Len(session.sends[g].sent) >= 1
    /\ \A i \in 1..Len(session.callDocs) : session.callDocs[i] = "pending"
    /\ session.callDocs # <<>>
    /\ preGeneratedAudioCache

\* C37: only the initial greeting is sent uninterruptible: every send
\* started by a reply of the turn handler has the label ai_response, is
\* interruptible and leaves greeting_in_progress as it is.
C37_RepliesInterruptible ==
    [][\A k \in 1..Len(session.turns) :
          (/\ session.turns[k].pc \in {"synth", "stopWait"}
           /\ Len(session'.sends) = Len(session.sends) + 1
           /\ k <= Len(session'.turns)
           /\ session'.turns[k].pc = "sendWait"
           /\ session'.turns[k].wait = Len(session'.sends)) =>
              LET r == session'.sends[Len(session'.sends)]
              IN /\ r.label = "ai_response"
                 /\ ~r.uninterruptible
                 /\ session'._uninterruptibleAudioGen # Len(session'.sends)
                 /\ session'._greetingInProgress = session._greetingInProgress]_vars

---------------------------------------------------------------------------
(* The temporary files of the transcoder: convertMp3ToMulaw (lines 635-681) *)
(* and the mu-law to WAV step of processIncomingAudio (lines 841-864), as   *)
(* run by the tasks of one server process (several sessions, or the        *)
(* synthesis of a filler and of a reply).  The clock is now, in            *)
(* milliseconds; a job is known by its position in codec.jobs and its      *)
(* audio by that same number.                                              *)

MaxJobs == 3
MaxTranscodeMs == 2

TranscodeKinds == {"audio", "incoming"}

\* `/tmp/audio_${timestamp}.mp3` and `/tmp/incoming_${timestamp}.ulaw`
inputFile(kind, timestamp) ==
    <<kind, timestamp, IF kind = "audio" THEN "mp3" ELSE "ulaw">>

\* `/tmp/audio_${timestamp}.ulaw` and `/tmp/incoming_${timestamp}.wav`
outputFile(kind, timestamp) ==
    <<kind, timestamp, IF kind = "audio" THEN "ulaw" ELSE "wav">>

existsSync(files, name) == \E f \in files : f.name = name

readFileSync(files, name) == (CHOOSE f \in files : f.name = name).data

writeFileSync(files, name, data) ==
    {f \in files : f.name # name} \cup {[name |-> name, data |-> data]}

unlinkSync(files, names) == {f \in files : f.name \notin names}

TranscodeInit ==
    /\ codec = [pc |-> "transcode", jobs |-> <<>>, files |-> {}]
    /\ session = initializeSession(FALSE)
    /\ now = 0
    /\ preGeneratedAudioCache = FALSE
    /\ fillerAudioCache = FALSE
    /\ stopReceived = FALSE
    /\ events = [connected |-> 0, start |-> 0, media |-> 0]
    /\ bound = [media |-> 0]

\* A task enters a conversion: the names are made from Date.now() and the
\* input is written (lines 636-645, 842-846); the task then waits for ffmpeg
ConvertWrite ==
    /\ codec.pc = "transcode"
    /\ Len(codec.jobs) < MaxJobs
    /\ \E kind \in TranscodeKinds :
          LET j == Len(codec.jobs) + 1
              in == inputFile(kind, now)
          IN codec' = [codec EXCEPT
                 !.jobs = Append(@, [kind |-> kind, pc |-> "ffmpeg", timestamp |-> now,
                                     input |-> in, output |-> outputFile(kind, now),
                                     result |-> 0]),
                 !.files = writeFileSync(@, in, j)]
    /\ UNCHANGED <<session, now, preGeneratedAudioCache, fillerAudioCache,
                   stopReceived, events, bound>>

\* The ffmpeg process of a job (lines 648-652, 854-856): it converts what the
\* input file holds into the output file (-y overwrites), or fails when there
\* is no input file
FfmpegRun ==
    /\ codec.pc = "transcode"
    /\ \E j \in 1..Len(codec.jobs) :
          LET job == codec.jobs[j]
          IN /\ job.pc = "ffmpeg"
             /\ codec' = IF existsSync(codec.files, job.input)
                         THEN [codec EXCEPT
                                 !.jobs[j].pc = "exited",
                                 !.files = writeFileSync(@, job.output,
                                                         readFileSync(codec.files, job.input))]
                         ELSE [codec EXCEPT !.jobs[j].pc = "rejected"]
    /\ UNCHANGED <<session, now, preGeneratedAudioCache, fillerAudioCache,
                   stopReceived, events, bound>>

\* The task resumes after ffmpeg (lines 655-668, 859-864): it reads the
\* output and removes both files.  A failed ffmpeg or a missing output file
\* throws: convertMp3ToMulaw removes its files (lines 669-680),
\* processIncomingAudio leaves them (lines 1106-1108)
ConvertRead ==
    /\ codec.pc = "transcode"
    /\ \E j \in 1..Len(codec.jobs) :
          LET job == codec.jobs[j]
              both == {job.input, job.output}
          IN /\ job.pc \in {"exited", "rejected"}
             /\ codec' =
                  IF job.pc = "exited" /\ existsSync(codec.files, job.output)
                  THEN [codec EXCEPT
                          !.jobs[j].pc = "returned",
                          !.jobs[j].result = readFileSync(codec.files, job.output),
                          !.files = unlinkSync(@, both)]
                  ELSE [codec EXCEPT
                          !.jobs[j].pc = "threw",
                          !.files = IF job.kind = "audio" THEN unlinkSync(@, both) ELSE @]
    /\ UNCHANGED <<session, now, preGeneratedAudioCache, fillerAudioCache,
                   stopReceived, events, bound>>

\* A millisecond passes
TranscodeTick ==
    /\ codec.pc = "transcode"
    /\ now < MaxTranscodeMs
    /\ now' = now + 1
    /\ UNCHANGED <<session, codec, preGeneratedAudioCache, fillerAudioCache,
                   stopReceived, events, bound>>

TranscodeNext == ConvertWrite \/ FfmpegRun \/ ConvertRead \/ TranscodeTick

TranscodeSpec == TranscodeInit /\ [][TranscodeNext]_vars

\* The jobs between the writing of their input and their return
RunningTranscodes ==
    {j \in 1..Len(codec.jobs) : codec.jobs[j].pc \in {"ffmpeg", "exited", "rejected"}}

\* C38: two transcodes that run concurrently never use the same temporary
\* file, and no conversion reads or loses its audio to another one: every
\* conversion returns the audio it was given.
C38_NoSharedTempFile ==
    codec.pc = "transcode" =>
        /\ \A i, j \in RunningTranscodes :
              i # j => {codec.jobs[i].input, codec.jobs[i].output}
                         \cap {codec.jobs[j].input, codec.jobs[j].output} = {}
        /\ \A j \in 1..Len(codec.jobs) :
              /\ codec.jobs[j].pc = "returned" => codec.jobs[j].result = j
              /\ codec.jobs[j].pc # "threw"

---------------------------------------------------------------------------
(* The level of a frame (calculateAudioLevel, lines 597-619).  Every       *)
(* decoded sample is a multiple of 4 and the sum of the squares of 160     *)
(* samples is beyond the integers of the checker, so the sum is taken of   *)
(* the squares of the quarter samples and the value returned is the level  *)
(* in units of 100/8192 (rms/4), rounded up: it is 0 exactly when the      *)
(* level is 0.                                                             *)

MaxLoud == 8
FrameLengths == {0, 1, 20, 40, 160, 200}
\* silence, negative zero, the two samples of greatest magnitude and a
\* sample of middle magnitude
LevelBytes == {255, 127, 0, 128, 175}

\* Lines 621-632: u = ~muLawByte & 0xff
muLawToLinearSample(muLawByte) ==
    LET u == 255 - muLawByte
        sign == IF (u \div 128) % 2 = 1 THEN -1 ELSE 1
        exponent == (u \div 16) % 8
        mantissa == u % 16
        magnitude == (mantissa * 8 + 132) * 2^exponent
    IN sign * (magnitude - 132)

\* The loop of lines 609-613 over the bytes lo..hi, in quarter samples; the
\* sum is taken by halves
RECURSIVE SumSq(_, _, _)
SumSq(mulawBuffer, lo, hi) ==
    IF lo > hi THEN 0
    ELSE IF lo = hi
         THEN LET pcm == muLawToLinearSample(mulawBuffer[lo]) \div 4
              IN pcm * pcm
         ELSE LET mid == (lo + hi) \div 2
              IN SumSq(mulawBuffer, lo, mid) + SumSq(mulawBuffer, mid + 1, hi)

\* The least r in lo..hi with r * r >= x
RECURSIVE CeilSqrt(_, _, _)
CeilSqrt(x, lo, hi) ==
    IF lo >= hi THEN lo
    ELSE LET mid == (lo + hi) \div 2
         IN IF mid * mid >= x THEN CeilSqrt(x, lo, mid) ELSE CeilSqrt(x, mid + 1, hi)

\* How many of the first sampleSize bytes are 0xFF (lines 603-606)
SilentCount(mulawBuffer, sampleSize) ==
    Cardinality({i \in 1..sampleSize : mulawBuffer[i] = 255})

\* Lines 597-619.  silentCount / sampleSize > 0.95 is a comparison of
\* doubles: the quotient is the double nearest to the fraction and 0.95 the
\* double nearest to 19/20, so for sampleSize <= 160 it is the comparison of
\* the fractions
calculateAudioLevel(mulawBuffer) ==
    IF Len(mulawBuffer) = 0 THEN 0
    ELSE LET sampleSize == IF Len(mulawBuffer) < 160 THEN Len(mulawBuffer) ELSE 160
             silentCount == SilentCount(mulawBuffer, sampleSize)
         IN IF silentCount * 100 > 95 * sampleSize THEN 0
            ELSE LET sumSq == SumSq(mulawBuffer, 1, sampleSize)
                     meanSq == (sumSq + sampleSize - 1) \div sampleSize
                 IN CeilSqrt(meanSq, 0, 8192)

\* audioLevel > threshold (line 481) for a level in units of 100/8192
AboveThreshold(audioLevel, threshold) == audioLevel * 100 > threshold * 8192

\* A frame of n bytes of silence, of which loud bytes, the first ones or
\* the last ones, are replaced by b
Frame(n, loud, b, front) ==
    [i \in 1..n |-> IF (front /\ i <= loud) \/ (~front /\ i > n - loud) THEN b ELSE 255]

LevelInit ==
    /\ \E n \in FrameLengths, loud \in 0..MaxLoud, b \in LevelBytes, front \in BOOLEAN :
          /\ loud <= n
          /\ codec = [pc |-> "frame", mulawBuffer |-> Frame(n, loud, b, front)]
    /\ session = initializeSession(FALSE)
    /\ now = 0
    /\ preGeneratedAudioCache = FALSE
    /\ fillerAudioCache = FALSE
    /\ stopReceived = FALSE
    /\ events = [connected |-> 0, start |-> 0, media |-> 0]
    /\ bound = [media |-> 0]

\* Line 463
Level ==
    /\ codec.pc = "frame"
    /\ codec' = [pc |-> "level", mulawBuffer |-> codec.mulawBuffer,
                 audioLevel |-> calculateAudioLevel(codec.mulawBuffer)]
    /\ UNCHANGED <<session, now, preGeneratedAudioCache, fillerAudioCache,
                   stopReceived, events, bound>>

LevelNext == Level

LevelSpec == LevelInit /\ [][LevelNext]_vars

\* C39: calculateAudioLevel returns 0 whenever at least 95% (95% included) of
\* the first min(160, length) bytes of the frame are 0xFF, so that such a
\* frame is never above the VAD threshold.
C39_MostlySilentIsZero ==
    codec.pc = "level" =>
        LET n == IF Len(codec.mulawBuffer) < 160 THEN Len(codec.mulawBuffer) ELSE 160
        IN (n > 0 /\ SilentCount(codec.mulawBuffer, n) * 100 >= 95 * n) =>
              /\ codec.audioLevel = 0
              /\ ~AboveThreshold(codec.audioLevel, VAD_THRESHOLD)

---------------------------------------------------------------------------
(* The resampler of the browser simulator (resampleTo8kLinear,             *)
(* src/frontend/src/SimulateCall.tsx, lines 44-74) for the input rates     *)
(* that are multiples of 8000 Hz.  A sample of the Float32Array is written *)
(* as its numerator over SampleScale, so that -SampleScale..SampleScale is *)
(* the range -1..1; the signal is a ramp over that range, every sample of  *)
(* which is different.                                                     *)

SampleScale == 6
MaxChunk == 4
InputRates == {8000, 16000, 24000, 48000}

\* The captured signal: 2 * SampleScale + 1 samples from -1 to 1
Signal == [i \in 1..(2 * SampleScale + 1) |-> i - 1 - SampleScale]

\* (clamped < 0 ? clamped * 32768 : clamped * 32767) | 0  (lines 64-65);
\* | 0 drops the fraction
ToInt16(v) ==
    LET clamped == IF v < -SampleScale THEN -SampleScale
                   ELSE IF v > SampleScale THEN SampleScale ELSE v
    IN IF clamped < 0 THEN -(((-clamped) * 32768) \div SampleScale)
       ELSE (clamped * 32767) \div SampleScale

\* The loop of lines 58-67; buf[idx] is the sample idx + 1 of the sequence
RECURSIVE ResampleLoop(_, _, _, _)
ResampleLoop(buf, pos, ratio, out) ==
    IF pos + 1 < Len(buf)
    THEN LET idx == pos
             frac == pos - idx
             s0 == buf[idx + 1]
             s1 == buf[idx + 2]
             v == s0 + (s1 - s0) * frac
         IN ResampleLoop(buf, pos + ratio, ratio, Append(out, ToInt16(v)))
    ELSE [pos |-> pos, out |-> out]

\* Lines 44-74: the samples returned and the state left in st
resampleTo8kLinear(input, inputRate, st) ==
    LET targetRate == 8000
        ratio == inputRate \div targetRate
        buf == st.buf \o input
        r == ResampleLoop(buf, st.pos, ratio, <<>>)
        keepFrom == IF r.pos < 0 THEN 0 ELSE r.pos
    IN [out |-> r.out,
        st |-> [buf |-> SubSeq(buf, keepFrom + 1, Len(buf)), pos |-> r.pos - keepFrom]]

ResampleInit ==
    /\ \E inputRate \in InputRates :
          codec = [pc |-> "resample", inputRate |-> inputRate, fed |-> 0,
                   st |-> [buf |-> <<>>, pos |-> 0], out |-> <<>>]
    /\ session = initializeSession(FALSE)
    /\ now = 0
    /\ preGeneratedAudioCache = FALSE
    /\ fillerAudioCache = FALSE
    /\ stopReceived = FALSE
    /\ events = [connected |-> 0, start |-> 0, media |-> 0]
    /\ bound = [media |-> 0]

\* One capture callback (line 543): the next n samples of the signal are
\* resampled with the state of the calls before
Capture ==
    /\ codec.pc = "resample"
    /\ \E n \in 1..MaxChunk :
          /\ codec.fed + n <= Len(Signal)
          /\ LET input == SubSeq(Signal, codec.fed + 1, codec.fed + n)
                 r == resampleTo8kLinear(input, codec.inputRate, codec.st)
             IN codec' = [codec EXCEPT !.fed = @ + n, !.st = r.st, !.out = @ \o r.out]
    /\ UNCHANGED <<session, now, preGeneratedAudioCache, fillerAudioCache,
                   stopReceived, events, bound>>

ResampleNext == Capture

ResampleSpec == ResampleInit /\ [][ResampleNext]_vars

\* The whole signal resampled in one call with a fresh state (lines 216-217)
WholeOutput(inputRate) ==
    resampleTo8kLinear(Signal, inputRate, [buf |-> <<>>, pos |-> 0]).out

\* C40: for a rate that is a multiple of 8000 Hz, the outputs of successive
\* calls with a carried state, concatenated, are the samples that one call on
\* the whole input gives: a beginning of them while input is still to come,
\* all of them at the end.
C40_ChunkInvariant ==
    codec.pc = "resample" =>
        LET whole == WholeOutput(codec.inputRate)
        IN /\ Len(codec.out) <= Len(whole)
           /\ \A i \in 1..Len(codec.out) : codec.out[i] = whole[i]
           /\ codec.fed = Len(Signal) => codec.out = whole



====
